---- MODULE Spec2Model ----
(***************************************************************************)
(* A model of the ssz codec: the streaming/buffered Encoder, the Codec     *)
(* that routes schema calls, the value types of the test packages and the  *)
(* partial reader (ReadPos, ReaderSource and the reader types).            *)
(*                                                                         *)
(* Integers.  TLC's integers are 32-bit signed, so                         *)
(*   - a uint32 is held in two's complement: the integer r stands for the  *)
(*     uint32 r mod 2^32, so every uint32 below 2^31 is itself and the     *)
(*     upper half is negative; the U32* operators wrap exactly as Go does; *)
(*   - a uint64 is held as its four 16-bit limbs, least significant first; *)
(*   - a uint256 is held as its four uint64 words, least significant first.*)
(***************************************************************************)
EXTENDS Integers, Sequences, FiniteSets, TLC

VARIABLES value, pc, stream, buffer, decoded, src, rd, trail, result, peer

vars == <<value, pc, stream, buffer, decoded, src, rd, trail, result, peer>>

(***************************************************************************)
(* Bounds of the model                                                     *)
(***************************************************************************)
\* longest slice the values hold
MaxItems == 2
\* longest dynamic byte blob the values hold
MaxBlob == 2
\* the sink may fail at its 1st .. MaxFailAt-th Write call
MaxFailAt == 3

(***************************************************************************)
(* Bytes and fixed-width integers                                          *)
(***************************************************************************)
NIL == [nil |-> TRUE]

Fill(n, b) == [i \in 1..n |-> b]

\* s[lo:hi] of Go, 0-based, for 0 <= lo <= hi <= len(s)
Slice(s, lo, hi) == SubSeq(s, lo + 1, hi)

MaxInt32 == (1073741823 * 2) + 1

\* a + b on uint32 (wrapping)
U32Add(a, b) ==
    IF a >= 0 /\ b >= 0 /\ a > MaxInt32 - b
    THEN ((a - MaxInt32) - 1) + ((b - MaxInt32) - 1)
    ELSE IF a < 0 /\ b < 0 /\ a < ((0 - MaxInt32) - 1) - b
         THEN ((a + MaxInt32) + 1) + ((b + MaxInt32) + 1)
         ELSE a + b

\* a - b on uint32 (wrapping)
U32Sub(a, b) ==
    IF b = (0 - MaxInt32) - 1 THEN U32Add(a, b) ELSE U32Add(a, 0 - b)

\* a < b on uint32
U32Less(a, b) ==
    IF (a >= 0) = (b >= 0) THEN a < b ELSE a >= 0

\* a / s on uint32, for 0 < s < 2^29
U32Div(a, s) ==
    IF a >= 0 THEN a \div s
    ELSE IF s = 1 THEN a
    ELSE LET x == (a + MaxInt32) + 1
             h == 1073741824
         IN  (x \div s) + 2 * (h \div s) + (((x % s) + 2 * (h % s)) \div s)

\* binary.LittleEndian.PutUint32
PutUint32(x) ==
    << x % 256, (x \div 256) % 256, (x \div 65536) % 256, (x \div 16777216) % 256 >>

\* binary.LittleEndian.Uint32
Uint32(b) ==
    b[1] + 256 * b[2] + 65536 * b[3]
         + 16777216 * (IF b[4] >= 128 THEN b[4] - 256 ELSE b[4])

\* binary.LittleEndian.PutUint64, on the four 16-bit limbs of n
PutUint64(n) ==
    [i \in 1..8 |-> IF i % 2 = 1 THEN n[(i + 1) \div 2] % 256
                                 ELSE n[i \div 2] \div 256]

\* binary.LittleEndian.Uint64, to the four 16-bit limbs
Uint64(b) == [k \in 1..4 |-> b[2 * k - 1] + 256 * b[2 * k]]

\* (*uint256.Int).MarshalSSZTo: the four words, least significant first
MarshalSSZTo(n) ==
    PutUint64(n[1]) \o PutUint64(n[2]) \o PutUint64(n[3]) \o PutUint64(n[4])

U64(w3, w2, w1, w0) == << w0, w1, w2, w3 >>

Zero64 == U64(0, 0, 0, 0)

(***************************************************************************)
(* The output sink of the streaming mode (an io.Writer supplied by the     *)
(* caller).  It counts the Write calls it receives; its failAt-th call     *)
(* fails (0: none does) and, when sticky, so does every later one.  A      *)
(* failing call returns the error named by its own call number, and keeps  *)
(* the first `short` bytes it was given.                                   *)
(***************************************************************************)
NewSink(failAt, sticky, short) ==
    [data |-> << >>, calls |-> 0, failAt |-> failAt, sticky |-> sticky,
     short |-> short]

Min(a, b) == IF a < b THEN a ELSE b

\* w.Write(p): the sink after the call, and the error it returns (0 = nil)
Write(w, p) ==
    LET k == w.calls + 1
        fails == w.failAt # 0 /\ (k = w.failAt \/ (w.sticky /\ k > w.failAt))
    IN  IF fails
        THEN [w |-> [w EXCEPT !.calls = k,
                              !.data = @ \o SubSeq(p, 1, Min(w.short, Len(p)))],
              err |-> k]
        ELSE [w |-> [w EXCEPT !.calls = k, !.data = @ \o p], err |-> 0]

(***************************************************************************)
(* Encoder.  outWriter is the sink (streaming mode) or NIL; outBuffer is   *)
(* the rest of the output buffer (buffered mode): `put` holds the bytes    *)
(* placed before the cursor and `room` is len(enc.outBuffer).  err is the  *)
(* latched write error (0 = nil), offset the dynamic offset tracker.       *)
(* `panic` records a run-time panic (an over-run of the buffer), after     *)
(* which the encoding has stopped.                                         *)
(***************************************************************************)
NewStreamEncoder(w) ==
    [outWriter |-> w, outBuffer |-> NIL, err |-> 0, offset |-> 0, panic |-> FALSE]

NewBufferEncoder(size) ==
    [outWriter |-> NIL, outBuffer |-> [put |-> << >>, room |-> size],
     err |-> 0, offset |-> 0, panic |-> FALSE]

\* _, enc.err = enc.outWriter.Write(p)
WriteOut(enc, p) ==
    LET r == Write(enc.outWriter, p)
    IN  [enc EXCEPT !.outWriter = r.w, !.err = r.err]

\* put p at the cursor of enc.outBuffer and advance: PutUintNN or copy, then
\* enc.outBuffer = enc.outBuffer[len(p):], which panics on a short buffer
PutOut(enc, p) ==
    IF enc.panic THEN enc
    ELSE IF Len(p) > enc.outBuffer.room THEN [enc EXCEPT !.panic = TRUE]
    ELSE [enc EXCEPT !.outBuffer = [put |-> @.put \o p, room |-> @.room - Len(p)]]

\* offsetDynamics marks the item being encoded as a dynamic type
offsetDynamics(enc, offset) == [enc EXCEPT !.offset = offset]

\* EncodeUint64 with the bytes in big-endian order
EncodeUint64BigEndian(enc, n) ==
    IF enc.outWriter # NIL
    THEN IF enc.err # 0 THEN enc
         ELSE WriteOut(enc, [i \in 1..8 |-> PutUint64(n)[9 - i]])
    ELSE PutOut(enc, [i \in 1..8 |-> PutUint64(n)[9 - i]])

\* EncodeUint64 serializes a uint64.
EncodeUint64(enc, n) ==
    IF enc.outWriter # NIL
    THEN IF enc.err # 0 THEN enc ELSE WriteOut(enc, PutUint64(n))
    ELSE PutOut(enc, PutUint64(n))

\* EncodeUint256 with the words most significant first
EncodeUint256BigEndian(enc, n) ==
    IF enc.outWriter # NIL
    THEN IF enc.err # 0 THEN enc
         ELSE IF ~n.isNil
         THEN WriteOut(enc, MarshalSSZTo([k \in 1..4 |-> n.words[5 - k]]))
         ELSE WriteOut(enc, Fill(32, 0))
    ELSE IF ~n.isNil THEN PutOut(enc, MarshalSSZTo([k \in 1..4 |-> n.words[5 - k]]))
         ELSE PutOut(enc, Fill(32, 0))

\* EncodeUint256 serializes a uint256; a nil pointer is serialized as zero.
EncodeUint256(enc, n) ==
    IF enc.outWriter # NIL
    THEN IF enc.err # 0 THEN enc
         ELSE IF ~n.isNil THEN WriteOut(enc, MarshalSSZTo(n.words))
         ELSE WriteOut(enc, Fill(32, 0))
    ELSE IF ~n.isNil THEN PutOut(enc, MarshalSSZTo(n.words))
         ELSE PutOut(enc, Fill(32, 0))

\* EncodeStaticBytes without the check of the latched error
EncodeStaticBytesUnlatched(enc, blob) ==
    IF enc.outWriter # NIL THEN WriteOut(enc, blob) ELSE PutOut(enc, blob)

\* EncodeStaticBytes serializes a static binary blob.
EncodeStaticBytes(enc, blob) ==
    IF enc.outWriter # NIL
    THEN IF enc.err # 0 THEN enc ELSE WriteOut(enc, blob)
    ELSE PutOut(enc, blob)

\* EncodeDynamicBytesOffset leaving the offset tracker where it was
EncodeDynamicBytesOffsetStill(enc, blob) ==
    IF enc.outWriter # NIL /\ enc.err # 0 THEN enc
    ELSE IF enc.outWriter # NIL THEN WriteOut(enc, PutUint32(enc.offset))
    ELSE PutOut(enc, PutUint32(enc.offset))

\* EncodeDynamicBytesOffset serializes a dynamic binary blob.
EncodeDynamicBytesOffset(enc, blob) ==
    IF enc.outWriter # NIL /\ enc.err # 0 THEN enc
    ELSE LET e == IF enc.outWriter # NIL
                  THEN WriteOut(enc, PutUint32(enc.offset))
                  ELSE PutOut(enc, PutUint32(enc.offset))
         IN  [e EXCEPT !.offset = U32Add(@, Len(blob))]

\* EncodeDynamicBytesContent is the lazy data writer for EncodeDynamicBytesOffset.
EncodeDynamicBytesContent(enc, blob) ==
    IF enc.outWriter # NIL
    THEN IF enc.err # 0 THEN enc ELSE WriteOut(enc, blob)
    ELSE PutOut(enc, blob)

\* EncodeSliceOfUint64sOffset whose buffered branch counts 4 bytes an item
EncodeSliceOfUint64sOffsetUneven(enc, ns) ==
    IF enc.outWriter # NIL /\ enc.err # 0 THEN enc
    ELSE IF enc.outWriter # NIL
    THEN [WriteOut(enc, PutUint32(enc.offset)) EXCEPT !.offset = U32Add(@, Len(ns) * 8)]
    ELSE [PutOut(enc, PutUint32(enc.offset)) EXCEPT !.offset = U32Add(@, Len(ns) * 4)]

\* EncodeSliceOfUint64sOffset serializes a dynamic slice of uint64s.
EncodeSliceOfUint64sOffset(enc, ns) ==
    IF enc.outWriter # NIL /\ enc.err # 0 THEN enc
    ELSE LET e == IF enc.outWriter # NIL
                  THEN WriteOut(enc, PutUint32(enc.offset))
                  ELSE PutOut(enc, PutUint32(enc.offset))
         IN  IF Len(ns) > 0 THEN [e EXCEPT !.offset = U32Add(@, Len(ns) * 8)]
             ELSE e

\* the loop of EncodeSliceOfUint64sContent over ns[lo..hi]
RECURSIVE EachUint64(_, _, _, _)
EachUint64(enc, ns, lo, hi) ==
    IF lo > hi THEN enc
    ELSE IF lo = hi
    THEN IF enc.outWriter # NIL
         THEN IF enc.err # 0 THEN enc ELSE WriteOut(enc, PutUint64(ns[lo]))
         ELSE PutOut(enc, PutUint64(ns[lo]))
    ELSE LET mid == (lo + hi) \div 2
         IN  EachUint64(EachUint64(enc, ns, lo, mid), ns, mid + 1, hi)

\* EncodeSliceOfUint64sContent is the lazy data writer for EncodeSliceOfUint64sOffset.
EncodeSliceOfUint64sContent(enc, ns) == EachUint64(enc, ns, 1, Len(ns))

\* enc with no output bytes recorded yet, and enc with the bytes of `before`
\* put back in front of its own: the loop below records each half's bytes
\* apart and joins them, which is the sequential loop evaluated in
\* O(n log n) steps
Fresh(enc) ==
    IF enc.outWriter # NIL THEN [enc EXCEPT !.outWriter.data = << >>]
    ELSE [enc EXCEPT !.outBuffer.put = << >>]

Join(before, enc) ==
    IF before.outWriter # NIL
    THEN [enc EXCEPT !.outWriter.data = before.outWriter.data \o @]
    ELSE [enc EXCEPT !.outBuffer.put = before.outBuffer.put \o @]

\* the loop of EncodeArrayOfStaticBytes and of EncodeSliceOfStaticBytesContent
\* over blobs[lo..hi]
RECURSIVE EachStaticBytes(_, _, _, _)
EachStaticBytes(enc, blobs, lo, hi) ==
    IF lo > hi THEN enc
    ELSE IF lo = hi
    THEN IF enc.outWriter # NIL
         THEN IF enc.err # 0 THEN enc ELSE WriteOut(enc, blobs[lo])
         ELSE PutOut(enc, blobs[lo])
    ELSE LET mid == (lo + hi) \div 2
             left == EachStaticBytes(enc, blobs, lo, mid)
         IN  Join(left, EachStaticBytes(Fresh(left), blobs, mid + 1, hi))

\* EncodeArrayOfStaticBytes serializes a static array of static binary blobs.
EncodeArrayOfStaticBytes(enc, blobs) ==
    Join(enc, EachStaticBytes(Fresh(enc), blobs, 1, Len(blobs)))

\* EncodeSliceOfStaticBytesOffset serializes a dynamic slice of static binary blobs.
EncodeSliceOfStaticBytesOffset(enc, blobs) ==
    IF enc.outWriter # NIL /\ enc.err # 0 THEN enc
    ELSE LET e == IF enc.outWriter # NIL
                  THEN WriteOut(enc, PutUint32(enc.offset))
                  ELSE PutOut(enc, PutUint32(enc.offset))
         IN  IF Len(blobs) > 0
             THEN [e EXCEPT !.offset = U32Add(@, Len(blobs) * Len(blobs[1]))]
             ELSE e

\* EncodeSliceOfStaticBytesContent is the lazy data writer for
\* EncodeSliceOfStaticBytesOffset.
EncodeSliceOfStaticBytesContent(enc, blobs) ==
    Join(enc, EachStaticBytes(Fresh(enc), blobs, 1, Len(blobs)))

\* EncodeSliceOfDynamicBytesOffset advancing the offset tracker by the item
\* offsets only
EncodeSliceOfDynamicBytesOffsetSlotsOnly(enc, blobs) ==
    IF enc.outWriter # NIL /\ enc.err # 0 THEN enc
    ELSE LET e == IF enc.outWriter # NIL
                  THEN WriteOut(enc, PutUint32(enc.offset))
                  ELSE PutOut(enc, PutUint32(enc.offset))
         IN  [e EXCEPT !.offset = U32Add(@, 4 * Len(blobs))]

\* for _, blob := range blobs { enc.offset += uint32(4 + len(blob)) }
RECURSIVE SumDynamicBytes(_, _, _)
SumDynamicBytes(offset, blobs, i) ==
    IF i > Len(blobs) THEN offset
    ELSE SumDynamicBytes(U32Add(offset, 4 + Len(blobs[i])), blobs, i + 1)

\* EncodeSliceOfDynamicBytesOffset serializes a dynamic slice of dynamic binary blobs.
EncodeSliceOfDynamicBytesOffset(enc, blobs) ==
    IF enc.outWriter # NIL /\ enc.err # 0 THEN enc
    ELSE LET e == IF enc.outWriter # NIL
                  THEN WriteOut(enc, PutUint32(enc.offset))
                  ELSE PutOut(enc, PutUint32(enc.offset))
         IN  [e EXCEPT !.offset = SumDynamicBytes(@, blobs, 1)]

\* the first loop of EncodeSliceOfDynamicBytesContent (the inlined
\* EncodeDynamicBytesOffset); in streaming mode an error returns from the
\* whole function
RECURSIVE EachDynamicBytesOffset(_, _, _)
EachDynamicBytesOffset(enc, blobs, i) ==
    IF i > Len(blobs) THEN enc
    ELSE IF enc.outWriter # NIL /\ enc.err # 0 THEN enc
    ELSE LET e == IF enc.outWriter # NIL
                  THEN WriteOut(enc, PutUint32(enc.offset))
                  ELSE PutOut(enc, PutUint32(enc.offset))
         IN  EachDynamicBytesOffset([e EXCEPT !.offset = U32Add(@, Len(blobs[i]))],
                                    blobs, i + 1)

\* the second loop of EncodeSliceOfDynamicBytesContent (the inlined
\* EncodeDynamicBytesContent)
RECURSIVE EachDynamicBytesContent(_, _, _)
EachDynamicBytesContent(enc, blobs, i) ==
    IF i > Len(blobs) THEN enc
    ELSE IF enc.outWriter # NIL
    THEN IF enc.err # 0 THEN enc
         ELSE EachDynamicBytesContent(WriteOut(enc, blobs[i]), blobs, i + 1)
    ELSE EachDynamicBytesContent(PutOut(enc, blobs[i]), blobs, i + 1)

\* EncodeSliceOfDynamicBytesContent is the lazy data writer for
\* EncodeSliceOfDynamicBytesOffset.
EncodeSliceOfDynamicBytesContent(enc, blobs) ==
    LET e0 == offsetDynamics(enc, 4 * Len(blobs))
        e1 == EachDynamicBytesOffset(e0, blobs, 1)
    IN  EachDynamicBytesContent(e1, blobs, 1)

(***************************************************************************)
(* Value types.  A value is a record of its fields and its type name; a    *)
(* type's DefineSSZ is the sequence of Define calls its schema method      *)
(* issues, each naming the field whose address it passes.                  *)
(***************************************************************************)
Call(op, field) ==
    [op |-> op, field |-> field, elem |-> "", size |-> 0, maxItems |-> 0,
     maxSize |-> 0]

CallOf(op, field, elem) == [Call(op, field) EXCEPT !.elem = elem]

CallMax(op, field, elem, size, maxItems, maxSize) ==
    [op |-> op, field |-> field, elem |-> elem, size |-> size,
     maxItems |-> maxItems, maxSize |-> maxSize]

\* type VoluntaryExit struct { Epoch, ValidatorIndex uint64 }
VoluntaryExit(epoch, validatorIndex) ==
    [typ |-> "VoluntaryExit", Epoch |-> epoch, ValidatorIndex |-> validatorIndex]

VoluntaryExit_SizeSSZ == 16

VoluntaryExit_DefineSSZ ==
    << Call("DefineUint64", "Epoch"),
       Call("DefineUint64", "ValidatorIndex") >>

\* type SignedVoluntaryExit struct { Exit *VoluntaryExit; Signature [96]byte }
SignedVoluntaryExit(exit, signature) ==
    [typ |-> "SignedVoluntaryExit", Exit |-> exit, Signature |-> signature]

SignedVoluntaryExit_SizeSSZ == 112

SignedVoluntaryExit_DefineSSZ ==
    << CallOf("DefineStaticObject", "Exit", "VoluntaryExit"),
       Call("DefineStaticBytes", "Signature") >>

\* type HistoricalBatch struct { BlockRoots, StateRoots [8192]Hash }
HistoricalRoots == 8192

HashLen == 32

HistoricalBatch(blockRoots, stateRoots) ==
    [typ |-> "HistoricalBatch", BlockRoots |-> blockRoots, StateRoots |-> stateRoots]

HistoricalBatch_SizeSSZ == 2 * 8192 * 32

HistoricalBatch_DefineSSZ ==
    << Call("DefineArrayOfStaticBytes", "BlockRoots"),
       Call("DefineArrayOfStaticBytes", "StateRoots") >>

\* AttestationData, the static object of 128 bytes IndexedAttestation holds;
\* its fields are not looked into
AttestationData(raw) == [typ |-> "AttestationData", Raw |-> raw]

AttestationData_SizeSSZ == 128

AttestationData_DefineSSZ == << Call("DefineStaticBytes", "Raw") >>

\* SizeSliceOfUint64s returns the serialized size of a dynamic slice of uint64s
SizeSliceOfUint64s(ns) == Len(ns) * 8

\* SizeDynamicBytes returns the serialized size of a dynamic blob
SizeDynamicBytes(blob) == Len(blob)

\* SizeSliceOfDynamicBytes returns the serialized size of a dynamic slice of
\* dynamic blobs: one offset and the content per blob
RECURSIVE SizeSliceOfDynamicBytes(_)
SizeSliceOfDynamicBytes(blobs) ==
    IF blobs = << >> THEN 0
    ELSE 4 + Len(Head(blobs)) + SizeSliceOfDynamicBytes(Tail(blobs))

\* type IndexedAttestation struct { AttestationIndices []uint64;
\*   Data *AttestationData; Signature [96]byte }
IndexedAttestation(indices, data, signature) ==
    [typ |-> "IndexedAttestation", AttestationIndices |-> indices, Data |-> data,
     Signature |-> signature]

\* IndexedAttestation.SizeSSZ counting one byte an index
IndexedAttestation_SizeSSZShort(a, fixed) ==
    228 + (IF ~fixed THEN Len(a.AttestationIndices) ELSE 0)

IndexedAttestation_SizeSSZ(a, fixed) ==
    228 + (IF ~fixed THEN SizeSliceOfUint64s(a.AttestationIndices) ELSE 0)

IndexedAttestation_DefineSSZ ==
    << Call("DefineSliceOfUint64sOffset", "AttestationIndices"),
       CallOf("DefineStaticObject", "Data", "AttestationData"),
       Call("DefineStaticBytes", "Signature"),
       CallMax("DefineSliceOfUint64sContent", "AttestationIndices", "", 0, 2048, 0) >>

\* type ExecutionPayload struct { ... }
ExecutionPayload_SizeSSZ(e, fixed) ==
    508 + (IF ~fixed THEN SizeDynamicBytes(e.ExtraData)
                          + SizeSliceOfDynamicBytes(e.Transactions)
           ELSE 0)

\* ExecutionPayload.DefineSSZ.  Its two dynamic fields are declared by the
\* one-call forms DefineDynamicBytes and DefineSliceOfDynamicBytes: the
\* offset goes where the call stands and the content after the fixed region
ExecutionPayload_DefineSSZ ==
    << Call("DefineStaticBytes", "ParentHash"),
       Call("DefineStaticBytes", "FeeRecipient"),
       Call("DefineStaticBytes", "StateRoot"),
       Call("DefineStaticBytes", "ReceiptsRoot"),
       Call("DefineStaticBytes", "LogsBloom"),
       Call("DefineStaticBytes", "PrevRandao"),
       Call("DefineUint64", "BlockNumber"),
       Call("DefineUint64", "GasLimit"),
       Call("DefineUint64", "GasUsed"),
       Call("DefineUint64", "Timestamp"),
       Call("DefineDynamicBytesOffset", "ExtraData"),
       Call("DefineUint256", "BaseFeePerGas"),
       Call("DefineStaticBytes", "BlockHash"),
       Call("DefineSliceOfDynamicBytesOffset", "Transactions"),
       CallMax("DefineDynamicBytesContent", "ExtraData", "", 0, 0, 32),
       CallMax("DefineSliceOfDynamicBytesContent", "Transactions", "", 0,
               1048576, 1073741824) >>

\* A dynamic container with two dynamic byte blobs
TwoBlobs(first, second) == [typ |-> "TwoBlobs", First |-> first, Second |-> second]

TwoBlobs_SizeSSZ(t, fixed) ==
    8 + (IF ~fixed THEN SizeDynamicBytes(t.First) + SizeDynamicBytes(t.Second)
         ELSE 0)

TwoBlobs_DefineSSZ ==
    << Call("DefineDynamicBytesOffset", "First"),
       Call("DefineDynamicBytesOffset", "Second"),
       CallMax("DefineDynamicBytesContent", "First", "", 0, 0, 8),
       CallMax("DefineDynamicBytesContent", "Second", "", 0, 0, 8) >>

RECURSIVE SizeSSZ(_, _)

\* SizeDynamicObject, SizeSliceOfStaticBytes, SizeSliceOfStaticObjects and
\* SizeSliceOfDynamicObjects: the size helpers of the remaining dynamic kinds
SizeDynamicObject(obj) == SizeSSZ(obj, FALSE)

SizeSliceOfStaticBytes(blobs) ==
    IF Len(blobs) = 0 THEN 0 ELSE Len(blobs) * Len(blobs[1])

SizeSliceOfStaticObjects(objects) ==
    IF Len(objects) = 0 THEN 0 ELSE Len(objects) * SizeSSZ(objects[1], FALSE)

RECURSIVE SizeSliceOfDynamicObjects(_)
SizeSliceOfDynamicObjects(objects) ==
    IF objects = << >> THEN 0
    ELSE 4 + SizeSSZ(Head(objects), FALSE) + SizeSliceOfDynamicObjects(Tail(objects))

\* A dynamic container with one field of each remaining dynamic kind:
\* Inner *TwoBlobs, Roots []Hash, Exits []*VoluntaryExit, Pairs []*TwoBlobs
Nest(inner, roots, exits, pairs) ==
    [typ |-> "Nest", Inner |-> inner, Roots |-> roots, Exits |-> exits,
     Pairs |-> pairs]

Nest_SizeSSZ(n, fixed) ==
    16 + (IF ~fixed THEN SizeDynamicObject(n.Inner) + SizeSliceOfStaticBytes(n.Roots)
                         + SizeSliceOfStaticObjects(n.Exits)
                         + SizeSliceOfDynamicObjects(n.Pairs)
          ELSE 0)

Nest_DefineSSZ ==
    << CallOf("DefineDynamicObjectOffset", "Inner", "TwoBlobs"),
       Call("DefineSliceOfStaticBytesOffset", "Roots"),
       CallOf("DefineSliceOfStaticObjectsOffset", "Exits", "VoluntaryExit"),
       CallOf("DefineSliceOfDynamicObjectsOffset", "Pairs", "TwoBlobs"),
       CallOf("DefineDynamicObjectContent", "Inner", "TwoBlobs"),
       CallMax("DefineSliceOfStaticBytesContent", "Roots", "", 32, 16, 0),
       CallMax("DefineSliceOfStaticObjectsContent", "Exits", "VoluntaryExit", 0, 16, 0),
       CallMax("DefineSliceOfDynamicObjectsContent", "Pairs", "TwoBlobs", 0, 16, 0) >>

\* obj.SizeSSZ() of a static object and obj.SizeSSZ(fixed) of a dynamic one
SizeSSZ(obj, fixed) ==
    CASE obj.typ = "VoluntaryExit" -> VoluntaryExit_SizeSSZ
      [] obj.typ = "SignedVoluntaryExit" -> SignedVoluntaryExit_SizeSSZ
      [] obj.typ = "HistoricalBatch" -> HistoricalBatch_SizeSSZ
      [] obj.typ = "AttestationData" -> AttestationData_SizeSSZ
      [] obj.typ = "IndexedAttestation" -> IndexedAttestation_SizeSSZ(obj, fixed)
      [] obj.typ = "ExecutionPayload" -> ExecutionPayload_SizeSSZ(obj, fixed)
      [] obj.typ = "TwoBlobs" -> TwoBlobs_SizeSSZ(obj, fixed)
      [] obj.typ = "Nest" -> Nest_SizeSSZ(obj, fixed)

\* the calls obj.DefineSSZ(codec) issues, in order
Schema(typ) ==
    CASE typ = "VoluntaryExit" -> VoluntaryExit_DefineSSZ
      [] typ = "SignedVoluntaryExit" -> SignedVoluntaryExit_DefineSSZ
      [] typ = "HistoricalBatch" -> HistoricalBatch_DefineSSZ
      [] typ = "AttestationData" -> AttestationData_DefineSSZ
      [] typ = "IndexedAttestation" -> IndexedAttestation_DefineSSZ
      [] typ = "ExecutionPayload" -> ExecutionPayload_DefineSSZ
      [] typ = "TwoBlobs" -> TwoBlobs_DefineSSZ
      [] typ = "Nest" -> Nest_DefineSSZ

\* whether the type implements DynamicObject (SizeSSZ(fixed bool)) rather
\* than StaticObject (SizeSSZ())
IsDynamic(typ) == typ \in {"IndexedAttestation", "ExecutionPayload", "TwoBlobs", "Nest"}

Nil256 == [isNil |-> TRUE, words |-> << Zero64, Zero64, Zero64, Zero64 >>]

Int256(w3, w2, w1, w0) == [isNil |-> FALSE, words |-> << w0, w1, w2, w3 >>]

\* new(T): the zero value a decode starts from (a nil object pointer is
\* filled in by the decoder, so it is shown as the zero object)
New(typ) ==
    CASE typ = "VoluntaryExit" -> VoluntaryExit(Zero64, Zero64)
      [] typ = "SignedVoluntaryExit" ->
            SignedVoluntaryExit(VoluntaryExit(Zero64, Zero64), Fill(96, 0))
      [] typ = "HistoricalBatch" ->
            HistoricalBatch(Fill(HistoricalRoots, Fill(HashLen, 0)),
                            Fill(HistoricalRoots, Fill(HashLen, 0)))
      [] typ = "AttestationData" -> AttestationData(Fill(128, 0))
      [] typ = "IndexedAttestation" ->
            IndexedAttestation(<< >>, AttestationData(Fill(128, 0)), Fill(96, 0))
      [] typ = "ExecutionPayload" ->
            [typ |-> "ExecutionPayload", ParentHash |-> Fill(32, 0),
             FeeRecipient |-> Fill(20, 0), StateRoot |-> Fill(32, 0),
             ReceiptsRoot |-> Fill(32, 0), LogsBloom |-> Fill(256, 0),
             PrevRandao |-> Fill(32, 0), BlockNumber |-> Zero64,
             GasLimit |-> Zero64, GasUsed |-> Zero64, Timestamp |-> Zero64,
             ExtraData |-> << >>, BaseFeePerGas |-> Nil256,
             BlockHash |-> Fill(32, 0), Transactions |-> << >>]
      [] typ = "TwoBlobs" -> TwoBlobs(<< >>, << >>)
      [] typ = "Nest" -> Nest(TwoBlobs(<< >>, << >>), << >>, << >>, << >>)

(***************************************************************************)
(* Encoder: objects.  enc.codec is the Codec that holds enc itself.        *)
(***************************************************************************)
RECURSIVE DefineSSZ(_, _)

CodecOfEncoder(enc) == [enc |-> enc, dec |-> NIL]

\* EncodeStaticObject serializes a static ssz object.
EncodeStaticObject(enc, obj) ==
    IF enc.err # 0 THEN enc
    ELSE DefineSSZ(CodecOfEncoder(enc), obj).c.enc

\* EncodeDynamicObjectOffset advancing the offset by the fixed size only
EncodeDynamicObjectOffsetFixedOnly(enc, obj) ==
    IF enc.outWriter # NIL /\ enc.err # 0 THEN enc
    ELSE IF enc.outWriter # NIL
    THEN [WriteOut(enc, PutUint32(enc.offset))
            EXCEPT !.offset = U32Add(@, SizeSSZ(obj, TRUE))]
    ELSE [PutOut(enc, PutUint32(enc.offset))
            EXCEPT !.offset = U32Add(@, SizeSSZ(obj, TRUE))]

\* EncodeDynamicObjectOffset serializes a dynamic ssz object.
EncodeDynamicObjectOffset(enc, obj) ==
    IF enc.outWriter # NIL /\ enc.err # 0 THEN enc
    ELSE LET e == IF enc.outWriter # NIL
                  THEN WriteOut(enc, PutUint32(enc.offset))
                  ELSE PutOut(enc, PutUint32(enc.offset))
         IN  [e EXCEPT !.offset = U32Add(@, SizeSSZ(obj, FALSE))]

\* EncodeDynamicObjectContent is the lazy data writer for EncodeDynamicObjectOffset.
EncodeDynamicObjectContent(enc, obj) ==
    IF enc.err # 0 THEN enc
    ELSE DefineSSZ(CodecOfEncoder(offsetDynamics(enc, SizeSSZ(obj, TRUE))), obj).c.enc

\* EncodeSliceOfStaticObjectsOffset serializes a dynamic slice of static ssz objects.
EncodeSliceOfStaticObjectsOffset(enc, objects) ==
    IF enc.outWriter # NIL /\ enc.err # 0 THEN enc
    ELSE LET e == IF enc.outWriter # NIL
                  THEN WriteOut(enc, PutUint32(enc.offset))
                  ELSE PutOut(enc, PutUint32(enc.offset))
         IN  IF Len(objects) > 0
             THEN [e EXCEPT !.offset =
                              U32Add(@, Len(objects) * SizeSSZ(objects[1], FALSE))]
             ELSE e

\* EncodeSliceOfStaticObjectsContent is the lazy data writer for
\* EncodeSliceOfStaticObjectsOffset.
RECURSIVE EachStaticObject(_, _, _)
EachStaticObject(enc, objects, i) ==
    IF i > Len(objects) THEN enc
    ELSE IF enc.err # 0 \/ enc.panic THEN enc
    ELSE EachStaticObject(DefineSSZ(CodecOfEncoder(enc), objects[i]).c.enc,
                          objects, i + 1)

EncodeSliceOfStaticObjectsContent(enc, objects) == EachStaticObject(enc, objects, 1)

\* for _, obj := range objects { enc.offset += 4 + obj.SizeSSZ(false) }
RECURSIVE SumDynamicObjects(_, _, _)
SumDynamicObjects(offset, objects, i) ==
    IF i > Len(objects) THEN offset
    ELSE SumDynamicObjects(U32Add(offset, 4 + SizeSSZ(objects[i], FALSE)),
                           objects, i + 1)

\* EncodeSliceOfDynamicObjectsOffset serializes a dynamic slice of dynamic ssz objects.
EncodeSliceOfDynamicObjectsOffset(enc, objects) ==
    IF enc.outWriter # NIL /\ enc.err # 0 THEN enc
    ELSE LET e == IF enc.outWriter # NIL
                  THEN WriteOut(enc, PutUint32(enc.offset))
                  ELSE PutOut(enc, PutUint32(enc.offset))
         IN  [e EXCEPT !.offset = SumDynamicObjects(@, objects, 1)]

\* the first loop of EncodeSliceOfDynamicObjectsContent (the inlined
\* EncodeDynamicObjectOffset)
RECURSIVE EachDynamicObjectOffset(_, _, _)
EachDynamicObjectOffset(enc, objects, i) ==
    IF i > Len(objects) THEN enc
    ELSE IF enc.outWriter # NIL /\ enc.err # 0 THEN enc
    ELSE LET e == IF enc.outWriter # NIL
                  THEN WriteOut(enc, PutUint32(enc.offset))
                  ELSE PutOut(enc, PutUint32(enc.offset))
         IN  EachDynamicObjectOffset(
                 [e EXCEPT !.offset = U32Add(@, SizeSSZ(objects[i], FALSE))],
                 objects, i + 1)

\* the second loop of EncodeSliceOfDynamicObjectsContent (the inlined
\* EncodeDynamicObjectContent)
RECURSIVE EachDynamicObjectContent(_, _, _)
EachDynamicObjectContent(enc, objects, i) ==
    IF i > Len(objects) THEN enc
    ELSE IF enc.err # 0 \/ enc.panic THEN enc
    ELSE EachDynamicObjectContent(
             DefineSSZ(CodecOfEncoder(offsetDynamics(enc, SizeSSZ(objects[i], TRUE))),
                       objects[i]).c.enc,
             objects, i + 1)

\* EncodeSliceOfDynamicObjectsContent is the lazy data writer for
\* EncodeSliceOfDynamicObjectsOffset.
EncodeSliceOfDynamicObjectsContent(enc, objects) ==
    LET e0 == offsetDynamics(enc, 4 * Len(objects))
        e1 == EachDynamicObjectOffset(e0, objects, 1)
    IN  EachDynamicObjectContent(e1, objects, 1)

(***************************************************************************)
(* Decoder, the mirror of the Encoder.  payload is the input, pos the read *)
(* cursor, err the latched first decode error ("" = none).  frames holds   *)
(* one frame per open container: its start and end in the payload, the     *)
(* size of its fixed region, the offsets read in it so far and the number  *)
(* of the next dynamic field whose content is to be read.                  *)
(* A Decode operation yields the decoder after it and the value it stored  *)
(* through the field address (the field's old value after an error).       *)
(***************************************************************************)
Frame(start, end, fixedEnd) ==
    [start |-> start, end |-> end, fixedEnd |-> fixedEnd, offsets |-> << >>,
     next |-> 1]

NewDecoder(payload, fixedEnd) ==
    [payload |-> payload, pos |-> 0, err |-> "",
     frames |-> << Frame(0, Len(payload), fixedEnd) >>]

TopFrame(dec) == dec.frames[Len(dec.frames)]

PushFrame(dec, f) == [dec EXCEPT !.frames = Append(@, f)]

PopFrame(dec) == [dec EXCEPT !.frames = SubSeq(@, 1, Len(@) - 1)]

FailWith(dec, kind) == [dec EXCEPT !.err = kind]

\* read n bytes at the cursor, inside the open container
ReadBytes(dec, n, cur) ==
    IF dec.err # "" THEN [dec |-> dec, val |-> cur]
    ELSE IF n < 0 \/ dec.pos + n > TopFrame(dec).end
    THEN [dec |-> FailWith(dec, "InputShort"), val |-> cur]
    ELSE [dec |-> [dec EXCEPT !.pos = @ + n],
          val |-> Slice(dec.payload, dec.pos, dec.pos + n)]

\* cut b into its Len(b) \div size pieces of `size` bytes
RECURSIVE Pieces(_, _)
Pieces(b, size) ==
    IF Len(b) < size THEN << >>
    ELSE IF Len(b) < 2 * size THEN << Slice(b, 0, size) >>
    ELSE Pieces(Slice(b, 0, ((Len(b) \div size) \div 2) * size), size)
           \o Pieces(Slice(b, ((Len(b) \div size) \div 2) * size, Len(b)), size)

AsUint64(r, cur) ==
    IF r.dec.err # "" THEN [dec |-> r.dec, val |-> cur]
    ELSE [dec |-> r.dec, val |-> Uint64(r.val)]

DecodeUint64(dec, cur) == AsUint64(ReadBytes(dec, 8, << >>), cur)

\* 32 bytes, least significant word first; zero bytes decode to zero
AsUint256(r, cur) ==
    IF r.dec.err # "" THEN [dec |-> r.dec, val |-> cur]
    ELSE [dec |-> r.dec,
          val |-> [isNil |-> FALSE,
                   words |-> [k \in 1..4 |-> Uint64(Slice(r.val, 8 * (k - 1), 8 * k))]]]

DecodeUint256(dec, cur) == AsUint256(ReadBytes(dec, 32, << >>), cur)

DecodeStaticBytes(dec, cur) == ReadBytes(dec, Len(cur), cur)

AsPieces(r, cur, size) ==
    IF r.dec.err # "" \/ size = 0 THEN [dec |-> r.dec, val |-> cur]
    ELSE [dec |-> r.dec, val |-> Pieces(r.val, size)]

AsUint64s(r, cur) ==
    IF r.dec.err # "" THEN [dec |-> r.dec, val |-> cur]
    ELSE [dec |-> r.dec, val |-> [i \in 1..(Len(r.val) \div 8) |->
                                    Uint64(Slice(r.val, 8 * (i - 1), 8 * i))]]

ItemSizeOf(blobs) == IF Len(blobs) = 0 THEN 0 ELSE Len(blobs[1])

DecodeArrayOfStaticBytes(dec, cur) ==
    AsPieces(ReadBytes(dec, Len(cur) * ItemSizeOf(cur), << >>), cur, ItemSizeOf(cur))

\* the offset phase of every dynamic kind: read the 4-byte offset, check it
\* against the open container and record it there
CheckedOffset(r, f, o) ==
    IF r.dec.err # "" THEN r.dec
    ELSE IF \/ o < 0
            \/ o > f.end - f.start
            \/ o < f.fixedEnd
            \/ (f.offsets = << >> /\ o # f.fixedEnd)
            \/ (f.offsets # << >> /\ o < f.offsets[Len(f.offsets)])
    THEN FailWith(r.dec, "MalformedOffsets")
    ELSE [r.dec EXCEPT !.frames[Len(r.dec.frames)].offsets = Append(@, o)]

OffsetRead(r, f) ==
    CheckedOffset(r, f, IF r.dec.err # "" THEN 0 ELSE Uint32(r.val))

DecodeOffset(dec) == OffsetRead(ReadBytes(dec, 4, << >>), TopFrame(dec))

\* the content phase: the extent of the next dynamic field of the open
\* container, from its offset to its neighbour's (or the container's end)
ExtentOf(f) ==
    [lo |-> f.start + f.offsets[f.next],
     hi |-> IF f.next < Len(f.offsets) THEN f.start + f.offsets[f.next + 1]
            ELSE f.end]

Extent(dec) == ExtentOf(TopFrame(dec))

TakeExtent(dec) == [dec EXCEPT !.frames[Len(dec.frames)].next = @ + 1]

HasExtent(dec) == dec.err = "" /\ TopFrame(dec).next <= Len(TopFrame(dec).offsets)

DynamicBytesIn(dec, x, cur, maxSize) ==
    IF x.hi - x.lo > maxSize
    THEN [dec |-> FailWith(dec, "SizeExceedsLimit"), val |-> cur]
    ELSE ReadBytes(TakeExtent(dec), x.hi - x.lo, cur)

DecodeDynamicBytesContent(dec, cur, maxSize) ==
    IF ~HasExtent(dec) THEN [dec |-> dec, val |-> cur]
    ELSE DynamicBytesIn(dec, Extent(dec), cur, maxSize)

\* a list of static items of itemSize bytes in the extent of `size` bytes
StaticListSize(dec, size, itemSize, maxItems) ==
    IF size % itemSize # 0 THEN FailWith(dec, "MalformedListSize")
    ELSE IF size \div itemSize > maxItems THEN FailWith(dec, "SizeExceedsLimit")
    ELSE TakeExtent(dec)

Uint64sIn(dec, x, cur, maxItems) ==
    AsUint64s(ReadBytes(StaticListSize(dec, x.hi - x.lo, 8, maxItems),
                        x.hi - x.lo, << >>), cur)

DecodeSliceOfUint64sContent(dec, cur, maxItems) ==
    IF ~HasExtent(dec) THEN [dec |-> dec, val |-> cur]
    ELSE Uint64sIn(dec, Extent(dec), cur, maxItems)

StaticBytesIn(dec, x, cur, itemSize, maxItems) ==
    AsPieces(ReadBytes(StaticListSize(dec, x.hi - x.lo, itemSize, maxItems),
                       x.hi - x.lo, << >>), cur, itemSize)

DecodeSliceOfStaticBytesContent(dec, cur, itemSize, maxItems) ==
    IF ~HasExtent(dec) THEN [dec |-> dec, val |-> cur]
    ELSE StaticBytesIn(dec, Extent(dec), cur, itemSize, maxItems)

\* a list of dynamic items in [lo, hi): the number of items from its first
\* offset, in a frame of the list's own
OpenedAt(dec, x, first, maxItems) ==
    IF first <= 0 \/ first % 4 # 0 THEN FailWith(dec, "MalformedListSize")
    ELSE IF first \div 4 > maxItems THEN FailWith(dec, "SizeExceedsLimit")
    ELSE PushFrame(dec, Frame(x.lo, x.hi, first))

OpenDynamicList(dec, x, maxItems) ==
    IF x.hi - x.lo < 4 THEN FailWith(dec, "InputShort")
    ELSE OpenedAt(dec, x, Uint32(Slice(dec.payload, x.lo, x.lo + 4)), maxItems)

\* one checked offset per item
RECURSIVE DecodeOffsets(_, _)
DecodeOffsets(dec, count) ==
    IF count = 0 \/ dec.err # "" THEN dec
    ELSE DecodeOffsets(DecodeOffset(dec), count - 1)

ItemOffsets(dec) ==
    IF dec.err # "" THEN dec ELSE DecodeOffsets(dec, TopFrame(dec).fixedEnd \div 4)

\* the list read: the frame of the list is closed; the field keeps cur after
\* an error
ListStored(r, cur) ==
    IF r.dec.err # "" THEN [dec |-> r.dec, val |-> cur]
    ELSE [dec |-> PopFrame(r.dec), val |-> r.val]

RECURSIVE DecodeEachDynamicBytes(_, _, _)
EachDynamicBytesNext(r, acc, maxSize) ==
    DecodeEachDynamicBytes(r.dec, Append(acc, r.val), maxSize)

DecodeEachDynamicBytes(dec, acc, maxSize) ==
    IF dec.err # "" \/ ~HasExtent(dec) THEN [dec |-> dec, val |-> acc]
    ELSE EachDynamicBytesNext(DecodeDynamicBytesContent(dec, << >>, maxSize), acc,
                              maxSize)

DynamicBytesListIn(dec, x, cur, maxItems, maxSize) ==
    IF x.hi = x.lo THEN [dec |-> dec, val |-> << >>]
    ELSE ListStored(DecodeEachDynamicBytes(
                        ItemOffsets(OpenDynamicList(dec, x, maxItems)), << >>, maxSize),
                    cur)

DecodeSliceOfDynamicBytesContent(dec, cur, maxItems, maxSize) ==
    IF ~HasExtent(dec) THEN [dec |-> dec, val |-> cur]
    ELSE DynamicBytesListIn(TakeExtent(dec), Extent(dec), cur, maxItems, maxSize)

CodecOfDecoder(dec) == [enc |-> NIL, dec |-> dec]

ObjectStored(r, cur) ==
    IF r.c.dec.err # "" THEN [dec |-> r.c.dec, val |-> cur]
    ELSE [dec |-> r.c.dec, val |-> r.obj]

DecodeStaticObject(dec, cur, elem) ==
    IF dec.err # "" THEN [dec |-> dec, val |-> cur]
    ELSE ObjectStored(DefineSSZ(CodecOfDecoder(dec), New(elem)), cur)

\* a dynamic object in the extent x: its schema is walked in a frame of its own
DynamicObjectStored(r, cur) ==
    IF r.c.dec.err # "" THEN [dec |-> r.c.dec, val |-> cur]
    ELSE [dec |-> PopFrame(r.c.dec), val |-> r.obj]

DecodeDynamicObjectIn(dec, x, cur, elem) ==
    DynamicObjectStored(
        DefineSSZ(CodecOfDecoder(
                      [PushFrame(dec, Frame(x.lo, x.hi, SizeSSZ(New(elem), TRUE)))
                         EXCEPT !.pos = x.lo]),
                  New(elem)),
        cur)

DecodeDynamicObjectContent(dec, cur, elem) ==
    IF ~HasExtent(dec) THEN [dec |-> dec, val |-> cur]
    ELSE DecodeDynamicObjectIn(TakeExtent(dec), Extent(dec), cur, elem)

RECURSIVE DecodeEachStaticObject(_, _, _, _)
EachStaticObjectNext(r, acc, count, elem) ==
    DecodeEachStaticObject(r.dec, Append(acc, r.val), count - 1, elem)

DecodeEachStaticObject(dec, acc, count, elem) ==
    IF count = 0 \/ dec.err # "" THEN [dec |-> dec, val |-> acc]
    ELSE EachStaticObjectNext(DecodeStaticObject(dec, New(elem), elem), acc, count, elem)

\* the list read; after an error the field keeps cur
ListOf(r, cur) == IF r.dec.err # "" THEN [dec |-> r.dec, val |-> cur] ELSE r

DecodeSliceOfStaticObjectsContent(dec, cur, elem, maxItems) ==
    IF ~HasExtent(dec) THEN [dec |-> dec, val |-> cur]
    ELSE ListOf(DecodeEachStaticObject(
                    StaticListSize(dec, Extent(dec).hi - Extent(dec).lo,
                                   SizeSSZ(New(elem), FALSE), maxItems),
                    << >>,
                    (Extent(dec).hi - Extent(dec).lo) \div SizeSSZ(New(elem), FALSE),
                    elem),
                cur)

RECURSIVE DecodeEachDynamicObject(_, _, _)
EachDynamicObjectNext(r, acc, elem) ==
    DecodeEachDynamicObject(r.dec, Append(acc, r.val), elem)

DecodeEachDynamicObject(dec, acc, elem) ==
    IF dec.err # "" \/ ~HasExtent(dec) THEN [dec |-> dec, val |-> acc]
    ELSE EachDynamicObjectNext(DecodeDynamicObjectContent(dec, New(elem), elem), acc,
                               elem)

DynamicObjectsIn(dec, x, cur, elem, maxItems) ==
    IF x.hi = x.lo THEN [dec |-> dec, val |-> << >>]
    ELSE ListStored(DecodeEachDynamicObject(
                        ItemOffsets(OpenDynamicList(dec, x, maxItems)), << >>, elem),
                    cur)

DecodeSliceOfDynamicObjectsContent(dec, cur, elem, maxItems) ==
    IF ~HasExtent(dec) THEN [dec |-> dec, val |-> cur]
    ELSE DynamicObjectsIn(TakeExtent(dec), Extent(dec), cur, elem, maxItems)

(***************************************************************************)
(* Codec: the unified encoder and decoder.  Exactly one of c.enc, c.dec is *)
(* set.  Define<Class>(c, call, n) is the call on the field whose value is *)
(* n; it yields the codec after the call and the value the field holds     *)
(* then (a Decode stores through the field's address, an Encode only reads *)
(* the field).                                                             *)
(***************************************************************************)
Encoded(c, enc, n) == [c |-> [c EXCEPT !.enc = enc], val |-> n]

Decoded(c, r) == [c |-> [c EXCEPT !.dec = r.dec], val |-> r.val]

\* DefineEncoder runs the block impl on the encoder when the encoder is set;
\* ran is the encoder as impl(c.enc) leaves it.
DefineEncoder(c, ran) ==
    IF c.enc # NIL THEN [c EXCEPT !.enc = ran] ELSE c

\* DefineDecoder runs the block impl on the decoder when the decoder is set;
\* ran is the decoder as impl(c.dec) leaves it.
DefineDecoder(c, ran) ==
    IF c.dec # NIL THEN [c EXCEPT !.dec = ran] ELSE c

\* DefineUint64 defines the next field as a uint64.
DefineUint64(c, call, n) ==
    IF c.enc # NIL THEN Encoded(c, EncodeUint64(c.enc, n), n)
    ELSE Decoded(c, DecodeUint64(c.dec, n))

\* DefineUint256 defines the next field as a uint256.
DefineUint256(c, call, n) ==
    IF c.enc # NIL THEN Encoded(c, EncodeUint256(c.enc, n), n)
    ELSE Decoded(c, DecodeUint256(c.dec, n))

\* DefineStaticBytes defines the next field as static binary blob.
DefineStaticBytes(c, call, n) ==
    IF c.enc # NIL THEN Encoded(c, EncodeStaticBytes(c.enc, n), n)
    ELSE Decoded(c, DecodeStaticBytes(c.dec, n))

\* DefineDynamicBytesOffset forwarding to the content primitive
DefineDynamicBytesOffsetAsContent(c, call, n) ==
    IF c.enc # NIL THEN Encoded(c, EncodeDynamicBytesContent(c.enc, n), n)
    ELSE Decoded(c, [dec |-> DecodeOffset(c.dec), val |-> n])

\* DefineDynamicBytesOffset defines the next field as dynamic binary blob.
DefineDynamicBytesOffset(c, call, n) ==
    IF c.enc # NIL THEN Encoded(c, EncodeDynamicBytesOffset(c.enc, n), n)
    ELSE Decoded(c, [dec |-> DecodeOffset(c.dec), val |-> n])

\* DefineDynamicBytesContent defines the next field as dynamic binary blob.
DefineDynamicBytesContent(c, call, n) ==
    IF c.enc # NIL THEN Encoded(c, EncodeDynamicBytesContent(c.enc, n), n)
    ELSE Decoded(c, DecodeDynamicBytesContent(c.dec, n, call.maxSize))

\* DefineStaticObject defines the next field as a static ssz object.
DefineStaticObject(c, call, n) ==
    IF c.enc # NIL THEN Encoded(c, EncodeStaticObject(c.enc, n), n)
    ELSE Decoded(c, DecodeStaticObject(c.dec, n, call.elem))

\* DefineDynamicObjectOffset defines the next field as a dynamic ssz object.
DefineDynamicObjectOffset(c, call, n) ==
    IF c.enc # NIL THEN Encoded(c, EncodeDynamicObjectOffset(c.enc, n), n)
    ELSE Decoded(c, [dec |-> DecodeOffset(c.dec), val |-> n])

\* DefineDynamicObjectContent defines the next field as a dynamic ssz object.
DefineDynamicObjectContent(c, call, n) ==
    IF c.enc # NIL THEN Encoded(c, EncodeDynamicObjectContent(c.enc, n), n)
    ELSE Decoded(c, DecodeDynamicObjectContent(c.dec, n, call.elem))

\* DefineSliceOfUint64sOffset defines the next field as a dynamic slice of uint64s.
DefineSliceOfUint64sOffset(c, call, n) ==
    IF c.enc # NIL THEN Encoded(c, EncodeSliceOfUint64sOffset(c.enc, n), n)
    ELSE Decoded(c, [dec |-> DecodeOffset(c.dec), val |-> n])

\* DefineSliceOfUint64sContent defines the next field as a dynamic slice of uint64s.
DefineSliceOfUint64sContent(c, call, n) ==
    IF c.enc # NIL THEN Encoded(c, EncodeSliceOfUint64sContent(c.enc, n), n)
    ELSE Decoded(c, DecodeSliceOfUint64sContent(c.dec, n, call.maxItems))

\* DefineArrayOfStaticBytes defines the next field as a static array of static binary blobs.
DefineArrayOfStaticBytes(c, call, n) ==
    IF c.enc # NIL THEN Encoded(c, EncodeArrayOfStaticBytes(c.enc, n), n)
    ELSE Decoded(c, DecodeArrayOfStaticBytes(c.dec, n))

\* DefineSliceOfStaticBytesOffset defines the next field as a dynamic slice of static binary blobs.
DefineSliceOfStaticBytesOffset(c, call, n) ==
    IF c.enc # NIL THEN Encoded(c, EncodeSliceOfStaticBytesOffset(c.enc, n), n)
    ELSE Decoded(c, [dec |-> DecodeOffset(c.dec), val |-> n])

\* DefineSliceOfStaticBytesContent defines the next field as a dynamic slice of static binary blobs.
DefineSliceOfStaticBytesContent(c, call, n) ==
    IF c.enc # NIL THEN Encoded(c, EncodeSliceOfStaticBytesContent(c.enc, n), n)
    ELSE Decoded(c, DecodeSliceOfStaticBytesContent(c.dec, n, call.size, call.maxItems))

\* DefineSliceOfDynamicBytesOffset defines the next field as a dynamic slice of dynamic binary blobs.
DefineSliceOfDynamicBytesOffset(c, call, n) ==
    IF c.enc # NIL THEN Encoded(c, EncodeSliceOfDynamicBytesOffset(c.enc, n), n)
    ELSE Decoded(c, [dec |-> DecodeOffset(c.dec), val |-> n])

\* DefineSliceOfDynamicBytesContent defines the next field as a dynamic slice of dynamic binary blobs.
DefineSliceOfDynamicBytesContent(c, call, n) ==
    IF c.enc # NIL THEN Encoded(c, EncodeSliceOfDynamicBytesContent(c.enc, n), n)
    ELSE Decoded(c, DecodeSliceOfDynamicBytesContent(c.dec, n, call.maxItems, call.maxSize))

\* DefineSliceOfStaticObjectsOffset defines the next field as a dynamic slice of static ssz objects.
DefineSliceOfStaticObjectsOffset(c, call, n) ==
    IF c.enc # NIL THEN Encoded(c, EncodeSliceOfStaticObjectsOffset(c.enc, n), n)
    ELSE Decoded(c, [dec |-> DecodeOffset(c.dec), val |-> n])

\* DefineSliceOfStaticObjectsContent defines the next field as a dynamic slice of static ssz objects.
DefineSliceOfStaticObjectsContent(c, call, n) ==
    IF c.enc # NIL THEN Encoded(c, EncodeSliceOfStaticObjectsContent(c.enc, n), n)
    ELSE Decoded(c, DecodeSliceOfStaticObjectsContent(c.dec, n, call.elem, call.maxItems))

\* DefineSliceOfDynamicObjectsOffset defines the next field as a dynamic slice of dynamic ssz objects.
DefineSliceOfDynamicObjectsOffset(c, call, n) ==
    IF c.enc # NIL THEN Encoded(c, EncodeSliceOfDynamicObjectsOffset(c.enc, n), n)
    ELSE Decoded(c, [dec |-> DecodeOffset(c.dec), val |-> n])

\* DefineSliceOfDynamicObjectsContent defines the next field as a dynamic slice of dynamic ssz objects.
DefineSliceOfDynamicObjectsContent(c, call, n) ==
    IF c.enc # NIL THEN Encoded(c, EncodeSliceOfDynamicObjectsContent(c.enc, n), n)
    ELSE Decoded(c, DecodeSliceOfDynamicObjectsContent(c.dec, n, call.elem, call.maxItems))

\* the Define call `call` of a schema, on the field value n; nothing runs
\* once the encoder has panicked
Define(c, call, n) ==
    IF c.enc # NIL /\ c.enc.panic THEN [c |-> c, val |-> n]
    ELSE CASE
         call.op = "DefineUint64" -> DefineUint64(c, call, n)
      [] call.op = "DefineUint256" -> DefineUint256(c, call, n)
      [] call.op = "DefineStaticBytes" -> DefineStaticBytes(c, call, n)
      [] call.op = "DefineDynamicBytesOffset" -> DefineDynamicBytesOffset(c, call, n)
      [] call.op = "DefineDynamicBytesContent" -> DefineDynamicBytesContent(c, call, n)
      [] call.op = "DefineStaticObject" -> DefineStaticObject(c, call, n)
      [] call.op = "DefineDynamicObjectOffset" -> DefineDynamicObjectOffset(c, call, n)
      [] call.op = "DefineDynamicObjectContent" -> DefineDynamicObjectContent(c, call, n)
      [] call.op = "DefineSliceOfUint64sOffset" -> DefineSliceOfUint64sOffset(c, call, n)
      [] call.op = "DefineSliceOfUint64sContent" -> DefineSliceOfUint64sContent(c, call, n)
      [] call.op = "DefineArrayOfStaticBytes" -> DefineArrayOfStaticBytes(c, call, n)
      [] call.op = "DefineSliceOfStaticBytesOffset" -> DefineSliceOfStaticBytesOffset(c, call, n)
      [] call.op = "DefineSliceOfStaticBytesContent" -> DefineSliceOfStaticBytesContent(c, call, n)
      [] call.op = "DefineSliceOfDynamicBytesOffset" -> DefineSliceOfDynamicBytesOffset(c, call, n)
      [] call.op = "DefineSliceOfDynamicBytesContent" -> DefineSliceOfDynamicBytesContent(c, call, n)
      [] call.op = "DefineSliceOfStaticObjectsOffset" -> DefineSliceOfStaticObjectsOffset(c, call, n)
      [] call.op = "DefineSliceOfStaticObjectsContent" -> DefineSliceOfStaticObjectsContent(c, call, n)
      [] call.op = "DefineSliceOfDynamicObjectsOffset" -> DefineSliceOfDynamicObjectsOffset(c, call, n)
      [] call.op = "DefineSliceOfDynamicObjectsContent" -> DefineSliceOfDynamicObjectsContent(c, call, n)

\* obj.DefineSSZ(codec), from the i-th call of the schema on
RECURSIVE DefineFrom(_, _, _, _)
DefineNext(r, calls, i, obj) ==
    DefineFrom(r.c, calls, i + 1, [obj EXCEPT ![calls[i].field] = r.val])

DefineFrom(c, calls, i, obj) ==
    IF i > Len(calls) THEN [c |-> c, obj |-> obj]
    ELSE DefineNext(Define(c, calls[i], obj[calls[i].field]), calls, i, obj)

DefineSSZ(c, obj) == DefineFrom(c, Schema(obj.typ), 1, obj)

(***************************************************************************)
(* Partial reader.  A reader is a record of its kind, its ReadPos and, for *)
(* a ByteArrayReader, its Size, for a ListReader, its Prototype.  An       *)
(* operation that can panic yields `panic` (the message, "" when it        *)
(* returned) and `val` (what it returned).  The payload of a ReaderSource  *)
(* is as long as its capacity, so a slice expression past its end panics.  *)
(***************************************************************************)
ReadPos(offset, nextOffset, containerEnd) ==
    [Offset |-> offset, NextOffset |-> nextOffset, ContainerEnd |-> containerEnd]

Add(p, localOffset) == ReadPos(U32Add(p.Offset, localOffset), 0, p.ContainerEnd)

AddWithNext(p, localOffset, localNextOffset) ==
    ReadPos(U32Add(p.Offset, localOffset), U32Add(p.Offset, localNextOffset),
            p.ContainerEnd)

ReaderSource(payload) == [payload |-> payload]

Returned(v) == [panic |-> "", val |-> v]

Panicked(msg) == [panic |-> msg, val |-> 0]

\* r.payload[lo:hi] is in range: lo <= hi <= cap(r.payload) as unsigned numbers
InBounds(s, lo, hi) == 0 <= lo /\ lo <= hi /\ hi <= Len(s.payload)

\* binary.LittleEndian.Uint32(r.payload[o : o+4]), o + 4 wrapping as a uint32
offset(s, o) ==
    IF o < 0 \/ o > Len(s.payload) - 4 THEN Panicked("slice bounds out of range")
    ELSE Returned(Uint32(Slice(s.payload, o, o + 4)))

\* objectEnd returns the end position of the object referred to by pos.
objectEnd(s, pos) ==
    IF pos.NextOffset = 0 THEN Returned(pos.ContainerEnd)
    ELSE offset(s, pos.NextOffset)

NoReader == [kind |-> "", pos |-> ReadPos(0, 0, 0)]

InitReaderSSZ(r, pos) == [r EXCEPT !.pos = pos]

Uint64Reader == [kind |-> "Uint64Reader", pos |-> ReadPos(0, 0, 0)]

Uint64Reader_Read(r, s) ==
    IF r.pos.Offset < 0 \/ r.pos.Offset > Len(s.payload) - 8
    THEN Panicked("slice bounds out of range")
    ELSE Returned(Uint64(Slice(s.payload, r.pos.Offset, r.pos.Offset + 8)))

ByteArrayReader(size) ==
    [kind |-> "ByteArrayReader", pos |-> ReadPos(0, 0, 0), Size |-> size]

\* v is the caller's buffer; the operation returns v as the copy leaves it
ByteArrayReader_Read(r, s, v) ==
    IF Len(v) # r.Size THEN Panicked("invalid size")
    ELSE IF r.pos.Offset < 0 \/ r.pos.Offset > Len(s.payload) - r.Size
    THEN Panicked("slice bounds out of range")
    ELSE Returned(Slice(s.payload, r.pos.Offset, r.pos.Offset + r.Size))

DynamicBytesReader == [kind |-> "DynamicBytesReader", pos |-> ReadPos(0, 0, 0)]

\* copy(v, b): v after the copy of min(len(v), len(b)) bytes
Copy(v, b) ==
    IF Len(b) >= Len(v) THEN Slice(b, 0, Len(v)) ELSE b \o Slice(v, Len(b), Len(v))

\* copy(v, src.payload[start:end]); n is the number of bytes copied
CopyBetween(s, start, end, v) ==
    IF start.panic # "" THEN start
    ELSE IF end.panic # "" THEN end
    ELSE IF ~InBounds(s, start.val, end.val) THEN Panicked("slice bounds out of range")
    ELSE [panic |-> "", val |-> Copy(v, Slice(s.payload, start.val, end.val)),
          n |-> Min(Len(v), end.val - start.val)]

DynamicBytesReader_Read(r, s, v) ==
    CopyBetween(s, offset(s, r.pos.Offset), objectEnd(s, r.pos), v)

\* the reader types of the value types
VoluntaryExitReader == [kind |-> "VoluntaryExitReader", pos |-> ReadPos(0, 0, 0)]

VoluntaryExitReader_SizeSSZ == 16

VoluntaryExitReader_Epoch(v) == InitReaderSSZ(Uint64Reader, Add(v.pos, 0))

VoluntaryExitReader_ValidatorIndex(v) == InitReaderSSZ(Uint64Reader, Add(v.pos, 8))

SignedVoluntaryExitReader ==
    [kind |-> "SignedVoluntaryExitReader", pos |-> ReadPos(0, 0, 0)]

SignedVoluntaryExitReader_SizeSSZ == 112

SignedVoluntaryExitReader_Exit(v) == InitReaderSSZ(VoluntaryExitReader, Add(v.pos, 0))

SignedVoluntaryExitReader_Signature(v) ==
    InitReaderSSZ(ByteArrayReader(96), Add(v.pos, 16))

ExecutionPayloadReader ==
    [kind |-> "ExecutionPayloadReader", pos |-> ReadPos(0, 0, 0)]

ExecutionPayloadReader_ParentHash(v) ==
    InitReaderSSZ(ByteArrayReader(32), Add(v.pos, 0))

ExecutionPayloadReader_ExtraData(v) ==
    InitReaderSSZ(DynamicBytesReader, AddWithNext(v.pos, 436, 495))

\* a reader of TwoBlobs: a dynamic reader, whose SizeSSZ(fixed) is the size
\* of the fixed region
TwoBlobsReader == [kind |-> "TwoBlobsReader", pos |-> ReadPos(0, 0, 0)]

TwoBlobsReader_SizeSSZ(fixed) == 8

TwoBlobsReader_First(v) == InitReaderSSZ(DynamicBytesReader, AddWithNext(v.pos, 0, 4))

TwoBlobsReader_Second(v) == InitReaderSSZ(DynamicBytesReader, Add(v.pos, 4))

\* any(r.Prototype).(StaticReader) and .(DynamicReader): the reader types
\* with a SizeSSZ() and with a SizeSSZ(fixed bool) method
IsStaticReader(r) == r.kind \in {"VoluntaryExitReader", "SignedVoluntaryExitReader"}

IsDynamicReader(r) == r.kind \in {"TwoBlobsReader"}

\* vs.SizeSSZ() of a StaticReader, vs.SizeSSZ(false) of a DynamicReader
PrototypeSize(r) ==
    CASE r.kind = "VoluntaryExitReader" -> VoluntaryExitReader_SizeSSZ
      [] r.kind = "SignedVoluntaryExitReader" -> SignedVoluntaryExitReader_SizeSSZ
      [] r.kind = "TwoBlobsReader" -> TwoBlobsReader_SizeSSZ(FALSE)
      [] OTHER -> 0

ListReader(prototype) ==
    [kind |-> "ListReader", Prototype |-> prototype, pos |-> ReadPos(0, 0, 0)]

\* int((end - start) / itemSize): the uint32 quotient
Length(start, end, itemSize) == U32Div(U32Sub(end, start), itemSize)

\* n >= length and n <= length - 1, for an int n and the int of a uint32
NotBelow(n, length) == length >= 0 /\ n >= length

AtMost(n, length) == length < 0 \/ n <= length - 1

ItemPos(r, start, end, n) ==
    ReadPos(U32Add(start, n),
            IF IsDynamicReader(r.Prototype)
                 /\ AtMost(n, Length(start, end, PrototypeSize(r.Prototype)))
            THEN U32Add(start, 4) ELSE 0,
            end)

ItemBetween(r, start, end, n) ==
    IF start.panic # "" THEN start
    ELSE IF end.panic # "" THEN end
    ELSE IF start.val = end.val THEN Panicked("out of bounds")
    ELSE IF /\ IsStaticReader(r.Prototype) \/ IsDynamicReader(r.Prototype)
            /\ NotBelow(n, Length(start.val, end.val, PrototypeSize(r.Prototype)))
    THEN Panicked("out of bounds")
    ELSE Returned(InitReaderSSZ(r.Prototype, ItemPos(r, start.val, end.val, n)))

ListReader_Item(r, s, n) ==
    ItemBetween(r, offset(s, r.pos.Offset), objectEnd(s, r.pos), n)

ListReader_ItemSize(r) ==
    IF IsStaticReader(r.Prototype) \/ IsDynamicReader(r.Prototype)
    THEN Returned(PrototypeSize(r.Prototype))
    ELSE Panicked("invalid item type")

LenBetween(start, end, itemSize) ==
    IF start.panic # "" THEN start
    ELSE IF end.panic # "" THEN end
    ELSE IF itemSize.panic # "" THEN itemSize
    ELSE Returned(Length(start.val, end.val, itemSize.val))

ListReader_Len(r, s) ==
    LenBetween(offset(s, r.pos.Offset), objectEnd(s, r.pos), ListReader_ItemSize(r))

ExecutionPayloadReader_Transactions(v) ==
    InitReaderSSZ(ListReader(DynamicBytesReader), Add(v.pos, 495))

\* readers of IndexedAttestation and Nest, put together from the library's
\* readers with the local offsets of their schemas
IndexedAttestationReader ==
    [kind |-> "IndexedAttestationReader", pos |-> ReadPos(0, 0, 0)]

IndexedAttestationReader_AttestationIndices(v) ==
    InitReaderSSZ(ListReader(Uint64Reader), Add(v.pos, 0))

NestReader == [kind |-> "NestReader", pos |-> ReadPos(0, 0, 0)]

NestReader_Roots(v) ==
    InitReaderSSZ(ListReader(ByteArrayReader(32)), AddWithNext(v.pos, 4, 8))

NestReader_Exits(v) ==
    InitReaderSSZ(ListReader(VoluntaryExitReader), AddWithNext(v.pos, 8, 12))

NestReader_Pairs(v) == InitReaderSSZ(ListReader(TwoBlobsReader), Add(v.pos, 12))

\* the reader type of a value type
ReaderOf(typ) ==
    CASE typ = "VoluntaryExit" -> VoluntaryExitReader
      [] typ = "SignedVoluntaryExit" -> SignedVoluntaryExitReader
      [] typ = "ExecutionPayload" -> ExecutionPayloadReader
      [] typ = "IndexedAttestation" -> IndexedAttestationReader
      [] typ = "TwoBlobs" -> TwoBlobsReader
      [] typ = "Nest" -> NestReader
      [] OTHER -> NoReader

(***************************************************************************)
(* The values encoded                                                      *)
(***************************************************************************)
U64s == { Zero64, U64(0, 0, 0, 7), U64(4386, 13124, 21862, 30600),
          U64(65535, 65535, 65535, 65535) }

\* the blob 01 02 .. of length k, and the k-byte blob of item i: i0 i1 ..
Text(k) == [j \in 1..k |-> j]

Tx(i, k) == [j \in 1..k |-> (16 * i + j) - 1]

Blobs == { Text(k) : k \in 0..MaxBlob }

BlobLists ==
    { [i \in 1..n |-> Tx(i, ((i + k) - 1) % (MaxBlob + 1))] :
        n \in 0..MaxItems, k \in 0..MaxBlob }

\* with the list 1, 2, 3
U64Lists ==
    { [i \in 1..n |-> U64(w, w, w, i)] : n \in 0..MaxItems, w \in {0, 65535} }
      \cup { << U64(0, 0, 0, 1), U64(0, 0, 0, 2), U64(0, 0, 0, 3) >> }

VoluntaryExits ==
    { VoluntaryExit(e, i) : e \in { Zero64, U64(0, 0, 0, 7) }, i \in U64s }

SignedVoluntaryExits ==
    { SignedVoluntaryExit(x, Fill(96, b)) :
        x \in { VoluntaryExit(U64(0, 0, 0, 7), U64(4386, 13124, 21862, 30600)),
                VoluntaryExit(U64(65535, 65535, 65535, 65535), Zero64) },
        b \in { 170, 0 } }

HistoricalBatches ==
    { HistoricalBatch([i \in 1..HistoricalRoots |-> Fill(HashLen, i % 251)],
                      [i \in 1..HistoricalRoots |-> Fill(HashLen, (i + b) % 241)]) :
        b \in { 7 } }

IndexedAttestations ==
    { IndexedAttestation(ns, AttestationData([i \in 1..128 |-> i]), Fill(96, 170)) :
        ns \in U64Lists }

ExecutionPayloads ==
    { [typ |-> "ExecutionPayload", ParentHash |-> Fill(32, 1),
       FeeRecipient |-> Fill(20, 2), StateRoot |-> Fill(32, 3),
       ReceiptsRoot |-> Fill(32, 4), LogsBloom |-> Fill(256, 5),
       PrevRandao |-> Fill(32, 6), BlockNumber |-> U64(0, 0, 0, 7),
       GasLimit |-> U64(0, 0, 1, 8), GasUsed |-> U64(0, 0, 0, 9),
       Timestamp |-> U64(0, 1, 2, 3), ExtraData |-> x, BaseFeePerGas |-> f,
       BlockHash |-> [i \in 1..32 |-> 200 + i], Transactions |-> t] :
        x \in Blobs, t \in BlobLists,
        f \in { Nil256, Int256(Zero64, Zero64, Zero64, Zero64),
                Int256(U64(0, 0, 0, 1), Zero64, Zero64, U64(0, 0, 0, 7)) } }

TwoBlobsValues == { TwoBlobs(a, b) : a \in Blobs, b \in Blobs }

Inners == { TwoBlobs(Text(a), Text(MaxBlob - a)) : a \in 0..MaxBlob }

RootLists == { [i \in 1..n |-> Fill(HashLen, i)] : n \in 0..MaxItems }

ExitLists ==
    { [i \in 1..n |-> VoluntaryExit(U64(0, 0, 0, i), U64(0, 0, 0, 7))] :
        n \in 0..MaxItems }

PairLists ==
    { [i \in 1..n |-> TwoBlobs(Text(i % (MaxBlob + 1)), Text((i + 1) % (MaxBlob + 1)))] :
        n \in 0..MaxItems }

Nests ==
    { n \in { Nest(x, r, e, q) : x \in Inners, r \in RootLists, e \in ExitLists,
                                 q \in PairLists } :
        Len(n.Roots) + Len(n.Exits) + Len(n.Pairs) <= MaxItems + 1 }

\* the sinks: one that never fails, and those failing at their k-th Write
Sinks ==
    { NewSink(0, FALSE, 0) }
      \cup { NewSink(k, st, 0) : k \in 1..MaxFailAt, st \in BOOLEAN }

(***************************************************************************)
(* The program.  `value` is encoded by a streaming encoder (codec `stream`)*)
(* and by a buffered one (codec `buffer`) side by side: pc counts the      *)
(* calls of the value's schema made so far.  When the encoding has         *)
(* returned (`result`), the codecs are gone; the payload of a successful   *)
(* encoding is the ReaderSource `src`, which is decoded (`decoded`) and    *)
(* read through partial readers (`rd` the reader at hand, `trail` the      *)
(* accessors that led to it, `result` what the last operation returned).   *)
(***************************************************************************)
\* the encoder as the encoding of obj starts: a dynamic object's offset
\* tracker starts at the size of its fixed region
StartEncoding(enc, obj) ==
    IF IsDynamic(obj.typ) THEN offsetDynamics(enc, SizeSSZ(obj, TRUE)) ELSE enc

\* a second goroutine that holds a copy of a reader: it is idle, has called
\* an operation of the reader, or has the outcome of the call
Idle == [state |-> "idle"]

InitOf(v, w) ==
    /\ value = v
    /\ pc = 0
    /\ stream = CodecOfEncoder(StartEncoding(NewStreamEncoder(w), v))
    /\ buffer = CodecOfEncoder(StartEncoding(NewBufferEncoder(SizeSSZ(v, FALSE)), v))
    /\ decoded = NIL
    /\ src = NIL
    /\ rd = NoReader
    /\ trail = << >>
    /\ result = [op |-> ""]
    /\ peer = Idle

Init ==
    \E w \in Sinks :
        \/ \E v \in VoluntaryExits : InitOf(v, w)
        \/ \E v \in SignedVoluntaryExits : InitOf(v, w)
        \/ \E v \in HistoricalBatches : InitOf(v, w)
        \/ \E v \in IndexedAttestations : InitOf(v, w)
        \/ \E v \in ExecutionPayloads : InitOf(v, w)
        \/ \E v \in TwoBlobsValues : InitOf(v, w)
        \/ \E v \in Nests : InitOf(v, w)

Root == Schema(value.typ)

Encoding == stream # NIL /\ pc < Len(Root)

NextCall == Root[pc + 1]

\* the call made on both codecs: the streaming and the buffered encoder
Stepped(s, b) ==
    /\ stream' = s.c
    /\ buffer' = b.c
    /\ pc' = pc + 1
    /\ UNCHANGED <<value, decoded, src, rd, trail, result, peer>>

Arg == value[NextCall.field]

DefineUint64Step ==
    /\ Encoding
    /\ NextCall.op = "DefineUint64"
    /\ Stepped(DefineUint64(stream, NextCall, Arg), DefineUint64(buffer, NextCall, Arg))

DefineUint256Step ==
    /\ Encoding
    /\ NextCall.op = "DefineUint256"
    /\ Stepped(DefineUint256(stream, NextCall, Arg), DefineUint256(buffer, NextCall, Arg))

DefineStaticBytesStep ==
    /\ Encoding
    /\ NextCall.op = "DefineStaticBytes"
    /\ Stepped(DefineStaticBytes(stream, NextCall, Arg), DefineStaticBytes(buffer, NextCall, Arg))

DefineDynamicBytesOffsetStep ==
    /\ Encoding
    /\ NextCall.op = "DefineDynamicBytesOffset"
    /\ Stepped(DefineDynamicBytesOffset(stream, NextCall, Arg), DefineDynamicBytesOffset(buffer, NextCall, Arg))

DefineDynamicBytesContentStep ==
    /\ Encoding
    /\ NextCall.op = "DefineDynamicBytesContent"
    /\ Stepped(DefineDynamicBytesContent(stream, NextCall, Arg), DefineDynamicBytesContent(buffer, NextCall, Arg))

DefineStaticObjectStep ==
    /\ Encoding
    /\ NextCall.op = "DefineStaticObject"
    /\ Stepped(DefineStaticObject(stream, NextCall, Arg), DefineStaticObject(buffer, NextCall, Arg))

DefineDynamicObjectOffsetStep ==
    /\ Encoding
    /\ NextCall.op = "DefineDynamicObjectOffset"
    /\ Stepped(DefineDynamicObjectOffset(stream, NextCall, Arg), DefineDynamicObjectOffset(buffer, NextCall, Arg))

DefineDynamicObjectContentStep ==
    /\ Encoding
    /\ NextCall.op = "DefineDynamicObjectContent"
    /\ Stepped(DefineDynamicObjectContent(stream, NextCall, Arg), DefineDynamicObjectContent(buffer, NextCall, Arg))

DefineSliceOfUint64sOffsetStep ==
    /\ Encoding
    /\ NextCall.op = "DefineSliceOfUint64sOffset"
    /\ Stepped(DefineSliceOfUint64sOffset(stream, NextCall, Arg), DefineSliceOfUint64sOffset(buffer, NextCall, Arg))

DefineSliceOfUint64sContentStep ==
    /\ Encoding
    /\ NextCall.op = "DefineSliceOfUint64sContent"
    /\ Stepped(DefineSliceOfUint64sContent(stream, NextCall, Arg), DefineSliceOfUint64sContent(buffer, NextCall, Arg))

DefineArrayOfStaticBytesStep ==
    /\ Encoding
    /\ NextCall.op = "DefineArrayOfStaticBytes"
    /\ Stepped(DefineArrayOfStaticBytes(stream, NextCall, Arg), DefineArrayOfStaticBytes(buffer, NextCall, Arg))

DefineSliceOfStaticBytesOffsetStep ==
    /\ Encoding
    /\ NextCall.op = "DefineSliceOfStaticBytesOffset"
    /\ Stepped(DefineSliceOfStaticBytesOffset(stream, NextCall, Arg), DefineSliceOfStaticBytesOffset(buffer, NextCall, Arg))

DefineSliceOfStaticBytesContentStep ==
    /\ Encoding
    /\ NextCall.op = "DefineSliceOfStaticBytesContent"
    /\ Stepped(DefineSliceOfStaticBytesContent(stream, NextCall, Arg), DefineSliceOfStaticBytesContent(buffer, NextCall, Arg))

DefineSliceOfDynamicBytesOffsetStep ==
    /\ Encoding
    /\ NextCall.op = "DefineSliceOfDynamicBytesOffset"
    /\ Stepped(DefineSliceOfDynamicBytesOffset(stream, NextCall, Arg), DefineSliceOfDynamicBytesOffset(buffer, NextCall, Arg))

DefineSliceOfDynamicBytesContentStep ==
    /\ Encoding
    /\ NextCall.op = "DefineSliceOfDynamicBytesContent"
    /\ Stepped(DefineSliceOfDynamicBytesContent(stream, NextCall, Arg), DefineSliceOfDynamicBytesContent(buffer, NextCall, Arg))

DefineSliceOfStaticObjectsOffsetStep ==
    /\ Encoding
    /\ NextCall.op = "DefineSliceOfStaticObjectsOffset"
    /\ Stepped(DefineSliceOfStaticObjectsOffset(stream, NextCall, Arg), DefineSliceOfStaticObjectsOffset(buffer, NextCall, Arg))

DefineSliceOfStaticObjectsContentStep ==
    /\ Encoding
    /\ NextCall.op = "DefineSliceOfStaticObjectsContent"
    /\ Stepped(DefineSliceOfStaticObjectsContent(stream, NextCall, Arg), DefineSliceOfStaticObjectsContent(buffer, NextCall, Arg))

DefineSliceOfDynamicObjectsOffsetStep ==
    /\ Encoding
    /\ NextCall.op = "DefineSliceOfDynamicObjectsOffset"
    /\ Stepped(DefineSliceOfDynamicObjectsOffset(stream, NextCall, Arg), DefineSliceOfDynamicObjectsOffset(buffer, NextCall, Arg))

DefineSliceOfDynamicObjectsContentStep ==
    /\ Encoding
    /\ NextCall.op = "DefineSliceOfDynamicObjectsContent"
    /\ Stepped(DefineSliceOfDynamicObjectsContent(stream, NextCall, Arg), DefineSliceOfDynamicObjectsContent(buffer, NextCall, Arg))

EncodingDone == stream # NIL /\ pc = Len(Root)

\* the bytes the buffered encoder has placed in its buffer
BufferBytes == buffer.enc.outBuffer.put

\* the bytes the sink has received
StreamBytes == stream.enc.outWriter.data

\* the encoding returns the latched error; the codecs are discarded, and the
\* payload of a successful encoding is kept
EncodeReturns ==
    /\ EncodingDone
    /\ result' = [op |-> "Encode", err |-> stream.enc.err, panic |-> buffer.enc.panic,
                   sink |-> [stream.enc.outWriter EXCEPT !.data = << >>]]
    /\ src' = IF stream.enc.err = 0 /\ ~buffer.enc.panic
              THEN ReaderSource(BufferBytes) ELSE NIL
    /\ stream' = NIL
    /\ buffer' = NIL
    /\ UNCHANGED <<value, pc, decoded, rd, trail, peer>>

\* DecodeFromBytes: the payload decoded into obj; the error and the value
DecodeReturned(r) == [err |-> r.c.dec.err, obj |-> r.obj]

DecodeFromBytes(payload, obj) ==
    DecodeReturned(
        DefineSSZ(CodecOfDecoder(NewDecoder(payload, SizeSSZ(obj, TRUE))), obj))

\* the payload is decoded into a new value of the same type
Decode ==
    /\ src # NIL
    /\ decoded = NIL
    /\ decoded' = DecodeFromBytes(src.payload, New(value.typ))
    /\ UNCHANGED <<value, pc, stream, buffer, src, rd, trail, result, peer>>

(***************************************************************************)
(* Reading the payload through partial readers.  A step of `trail` names   *)
(* the accessor taken (and, for Item, the index).                          *)
(***************************************************************************)
Step(acc, n) == [acc |-> acc, n |-> n]

\* the indexes asked of a list, and the lengths of the caller's buffers
ItemIndexes == (0 - 1)..(MaxItems + 1)

BufferSizes == {1, MaxBlob + 1}

\* the reader of the whole payload: the root position
NewReader ==
    /\ src # NIL
    /\ rd = NoReader
    /\ ReaderOf(value.typ) # NoReader
    /\ rd' = InitReaderSSZ(ReaderOf(value.typ), ReadPos(0, 0, Len(src.payload)))
    /\ trail' = << >>
    /\ result' = [op |-> "InitReaderSSZ"]
    /\ UNCHANGED <<value, pc, stream, buffer, decoded, src, peer>>

\* an accessor of the reader at hand returns the reader `child`
Visit(acc, child) ==
    /\ rd' = child
    /\ trail' = Append(trail, Step(acc, 0))
    /\ result' = [op |-> acc]
    /\ UNCHANGED <<value, pc, stream, buffer, decoded, src, peer>>

VoluntaryExitReader_EpochStep ==
    /\ rd.kind = "VoluntaryExitReader"
    /\ Visit("Epoch", VoluntaryExitReader_Epoch(rd))

VoluntaryExitReader_ValidatorIndexStep ==
    /\ rd.kind = "VoluntaryExitReader"
    /\ Visit("ValidatorIndex", VoluntaryExitReader_ValidatorIndex(rd))

SignedVoluntaryExitReader_ExitStep ==
    /\ rd.kind = "SignedVoluntaryExitReader"
    /\ Visit("Exit", SignedVoluntaryExitReader_Exit(rd))

SignedVoluntaryExitReader_SignatureStep ==
    /\ rd.kind = "SignedVoluntaryExitReader"
    /\ Visit("Signature", SignedVoluntaryExitReader_Signature(rd))

ExecutionPayloadReader_ParentHashStep ==
    /\ rd.kind = "ExecutionPayloadReader"
    /\ Visit("ParentHash", ExecutionPayloadReader_ParentHash(rd))

ExecutionPayloadReader_ExtraDataStep ==
    /\ rd.kind = "ExecutionPayloadReader"
    /\ Visit("ExtraData", ExecutionPayloadReader_ExtraData(rd))

ExecutionPayloadReader_TransactionsStep ==
    /\ rd.kind = "ExecutionPayloadReader"
    /\ Visit("Transactions", ExecutionPayloadReader_Transactions(rd))

IndexedAttestationReader_AttestationIndicesStep ==
    /\ rd.kind = "IndexedAttestationReader"
    /\ Visit("AttestationIndices", IndexedAttestationReader_AttestationIndices(rd))

\* the fields of a TwoBlobs are read from the reader of a payload that is a
\* TwoBlobs (a list's item reader holds the position of the item's offset)
TwoBlobsReader_FirstStep ==
    /\ rd.kind = "TwoBlobsReader"
    /\ trail = << >>
    /\ Visit("First", TwoBlobsReader_First(rd))

TwoBlobsReader_SecondStep ==
    /\ rd.kind = "TwoBlobsReader"
    /\ trail = << >>
    /\ Visit("Second", TwoBlobsReader_Second(rd))

NestReader_RootsStep ==
    /\ rd.kind = "NestReader"
    /\ Visit("Roots", NestReader_Roots(rd))

NestReader_ExitsStep ==
    /\ rd.kind = "NestReader"
    /\ Visit("Exits", NestReader_Exits(rd))

NestReader_PairsStep ==
    /\ rd.kind = "NestReader"
    /\ Visit("Pairs", NestReader_Pairs(rd))

\* what an operation on the reader rd returned: r.panic and r.val
Outcome(op, n, r) ==
    [op |-> op, reader |-> rd, path |-> trail, n |-> n, panic |-> r.panic,
     val |-> r.val, copied |-> IF "n" \in DOMAIN r THEN r.n ELSE 0]

Read(r, n) ==
    /\ result' = Outcome("Read", n, r)
    /\ UNCHANGED <<value, pc, stream, buffer, decoded, src, rd, trail, peer>>

Uint64Reader_ReadStep ==
    /\ rd.kind = "Uint64Reader"
    /\ Read(Uint64Reader_Read(rd, src), 8)

ByteArrayReader_ReadStep ==
    /\ rd.kind = "ByteArrayReader"
    /\ \E size \in {rd.Size, rd.Size + 1} :
          Read(ByteArrayReader_Read(rd, src, Fill(size, 0)), size)

\* the copy with its arguments exchanged, copy(src.payload[start:end], v):
\* the caller's buffer is written over the payload
DynamicBytesReader_ReadStepReversed ==
    /\ rd.kind = "DynamicBytesReader"
    /\ \E size \in BufferSizes :
          LET r == DynamicBytesReader_Read(rd, src, Fill(size, 0))
              start == offset(src, rd.pos.Offset).val
          IN  /\ result' = Outcome("Read", size, r)
              /\ src' = IF r.panic # "" THEN src
                        ELSE ReaderSource(Slice(src.payload, 0, start)
                                            \o Fill(r.n, 0)
                                            \o Slice(src.payload, start + r.n,
                                                     Len(src.payload)))
              /\ UNCHANGED <<value, pc, stream, buffer, decoded, rd, trail, peer>>

DynamicBytesReader_ReadStep ==
    /\ rd.kind = "DynamicBytesReader"
    /\ \E size \in BufferSizes :
          Read(DynamicBytesReader_Read(rd, src, Fill(size, 0)), size)

ListReader_LenStep ==
    /\ rd.kind = "ListReader"
    /\ result' = Outcome("Len", 0, ListReader_Len(rd, src))
    /\ UNCHANGED <<value, pc, stream, buffer, decoded, src, rd, trail, peer>>

\* Item(src, n): the item reader becomes the reader at hand
ItemReturned(r, n) ==
    /\ result' = Outcome("Item", n, r)
    /\ rd' = IF r.panic = "" THEN r.val ELSE rd
    /\ trail' = IF r.panic = "" THEN Append(trail, Step("Item", n)) ELSE trail
    /\ UNCHANGED <<value, pc, stream, buffer, decoded, src, peer>>

ListReader_ItemStep ==
    /\ rd.kind = "ListReader"
    /\ \E n \in ItemIndexes : ItemReturned(ListReader_Item(rd, src, n), n)

(***************************************************************************)
(* A second goroutine uses a copy of the reader at hand while the first    *)
(* goes on: its call and its return are two steps, and any operation of    *)
(* the first goroutine may come between them.                              *)
(***************************************************************************)
ReaderCall(op, n) == [op |-> op, n |-> n]

\* the operations of the reader r that read the payload
ReaderCalls(r) ==
    CASE r.kind = "Uint64Reader" -> {ReaderCall("Read", 8)}
      [] r.kind = "ByteArrayReader" -> {ReaderCall("Read", r.Size)}
      [] r.kind = "DynamicBytesReader" -> {ReaderCall("Read", size) : size \in BufferSizes}
      [] r.kind = "ListReader" ->
            {ReaderCall("Len", 0)} \cup {ReaderCall("Item", n) : n \in ItemIndexes}
      [] OTHER -> {}

\* the operation `call` of the reader r, run on the source s
Invoke(r, s, call) ==
    CASE call.op = "Len" -> ListReader_Len(r, s)
      [] call.op = "Item" -> ListReader_Item(r, s, call.n)
      [] r.kind = "Uint64Reader" -> Uint64Reader_Read(r, s)
      [] r.kind = "ByteArrayReader" -> ByteArrayReader_Read(r, s, Fill(call.n, 0))
      [] OTHER -> DynamicBytesReader_Read(r, s, Fill(call.n, 0))

\* the second goroutine takes a copy of the reader at hand and calls it;
\* `alone` is what the call returns with no operation of the first goroutine
\* in between
PeerCalls ==
    /\ src # NIL
    /\ peer.state # "called"
    /\ \E call \in ReaderCalls(rd) :
          peer' = [state |-> "called", reader |-> rd, call |-> call,
                   alone |-> Invoke(rd, src, call)]
    /\ UNCHANGED <<value, pc, stream, buffer, decoded, src, rd, trail, result>>

\* the call of the second goroutine reads the payload and returns
PeerReturns ==
    /\ peer.state = "called"
    /\ peer' = [peer EXCEPT !.state = "returned"]
                  @@ [out |-> Invoke(peer.reader, src, peer.call)]
    /\ UNCHANGED <<value, pc, stream, buffer, decoded, src, rd, trail, result>>

Next ==
    \/ DefineUint64Step
    \/ DefineUint256Step
    \/ DefineStaticBytesStep
    \/ DefineDynamicBytesOffsetStep
    \/ DefineDynamicBytesContentStep
    \/ DefineStaticObjectStep
    \/ DefineDynamicObjectOffsetStep
    \/ DefineDynamicObjectContentStep
    \/ DefineSliceOfUint64sOffsetStep
    \/ DefineSliceOfUint64sContentStep
    \/ DefineArrayOfStaticBytesStep
    \/ DefineSliceOfStaticBytesOffsetStep
    \/ DefineSliceOfStaticBytesContentStep
    \/ DefineSliceOfDynamicBytesOffsetStep
    \/ DefineSliceOfDynamicBytesContentStep
    \/ DefineSliceOfStaticObjectsOffsetStep
    \/ DefineSliceOfStaticObjectsContentStep
    \/ DefineSliceOfDynamicObjectsOffsetStep
    \/ DefineSliceOfDynamicObjectsContentStep
    \/ EncodeReturns
    \/ Decode
    \/ NewReader
    \/ VoluntaryExitReader_EpochStep
    \/ VoluntaryExitReader_ValidatorIndexStep
    \/ SignedVoluntaryExitReader_ExitStep
    \/ SignedVoluntaryExitReader_SignatureStep
    \/ ExecutionPayloadReader_ParentHashStep
    \/ ExecutionPayloadReader_ExtraDataStep
    \/ ExecutionPayloadReader_TransactionsStep
    \/ IndexedAttestationReader_AttestationIndicesStep
    \/ TwoBlobsReader_FirstStep
    \/ TwoBlobsReader_SecondStep
    \/ NestReader_RootsStep
    \/ NestReader_ExitsStep
    \/ NestReader_PairsStep
    \/ Uint64Reader_ReadStep
    \/ ByteArrayReader_ReadStep
    \/ DynamicBytesReader_ReadStep
    \/ ListReader_LenStep
    \/ ListReader_ItemStep
    \/ PeerCalls
    \/ PeerReturns

Spec == Init /\ [][Next]_vars

(***************************************************************************)
(* The layout of the encoding, from the schemas and the sizes of the       *)
(* values alone: where each dynamic field lies, against which the bytes    *)
(* and the readers are compared.                                           *)
(***************************************************************************)
IsOffsetOp(op) ==
    op \in { "DefineDynamicBytesOffset", "DefineDynamicObjectOffset",
             "DefineSliceOfUint64sOffset", "DefineSliceOfStaticBytesOffset",
             "DefineSliceOfDynamicBytesOffset", "DefineSliceOfStaticObjectsOffset",
             "DefineSliceOfDynamicObjectsOffset" }

IsContentOp(op) ==
    op \in { "DefineDynamicBytesContent", "DefineDynamicObjectContent",
             "DefineSliceOfUint64sContent", "DefineSliceOfStaticBytesContent",
             "DefineSliceOfDynamicBytesContent", "DefineSliceOfStaticObjectsContent",
             "DefineSliceOfDynamicObjectsContent" }

\* the bytes a call takes in the fixed region; zero is a value of the type
FixedWidth(call, zero) ==
    CASE call.op = "DefineUint64" -> 8
      [] call.op = "DefineUint256" -> 32
      [] call.op = "DefineStaticBytes" -> Len(zero[call.field])
      [] call.op = "DefineStaticObject" -> SizeSSZ(New(call.elem), FALSE)
      [] call.op = "DefineArrayOfStaticBytes" ->
            Len(zero[call.field]) * Len(zero[call.field][1])
      [] IsOffsetOp(call.op) -> 4
      [] OTHER -> 0

\* the offset slots of the fixed region, in order: the slot's local position
\* and its call
RECURSIVE Slots(_, _, _, _)
Slots(calls, i, at, zero) ==
    IF i > Len(calls) THEN << >>
    ELSE IF IsOffsetOp(calls[i].op)
    THEN << [at |-> at, call |-> calls[i]] >> \o Slots(calls, i + 1, at + 4, zero)
    ELSE Slots(calls, i + 1, at + FixedWidth(calls[i], zero), zero)

RECURSIVE FixedRegion(_, _, _)
FixedRegion(calls, i, zero) ==
    IF i > Len(calls) THEN 0
    ELSE FixedWidth(calls[i], zero) + FixedRegion(calls, i + 1, zero)

\* the bytes the content of a dynamic field takes
ContentSize(call, val) ==
    CASE call.op = "DefineDynamicBytesContent" -> Len(val)
      [] call.op = "DefineDynamicObjectContent" -> SizeSSZ(val, FALSE)
      [] call.op = "DefineSliceOfUint64sContent" -> 8 * Len(val)
      [] call.op = "DefineSliceOfStaticBytesContent" -> call.size * Len(val)
      [] call.op = "DefineSliceOfDynamicBytesContent" -> SizeSliceOfDynamicBytes(val)
      [] call.op = "DefineSliceOfStaticObjectsContent" ->
            SizeSSZ(New(call.elem), FALSE) * Len(val)
      [] call.op = "DefineSliceOfDynamicObjectsContent" ->
            SizeSliceOfDynamicObjects(val)
      [] OTHER -> 0

\* the content call of a dynamic field
ContentCall(typ, field) ==
    LET calls == Schema(typ)
    IN  calls[CHOOSE i \in 1..Len(calls) :
                 calls[i].field = field /\ IsContentOp(calls[i].op)]

\* the bytes of the dynamic region before the content of `field`
RECURSIVE ContentBefore(_, _, _, _)
ContentBefore(calls, i, v, field) ==
    IF i > Len(calls) \/ (calls[i].field = field /\ IsContentOp(calls[i].op)) THEN 0
    ELSE ContentSize(calls[i], v[calls[i].field])
           + ContentBefore(calls, i + 1, v, field)

\* the dynamic field `field` of the payload of v lies in [FieldStart, FieldEnd)
FieldStart(v, field) ==
    FixedRegion(Schema(v.typ), 1, v) + ContentBefore(Schema(v.typ), 1, v, field)

FieldEnd(v, field) ==
    FieldStart(v, field) + ContentSize(ContentCall(v.typ, field), v[field])

\* the size of an item of a list of static items
StaticItemSize(call) ==
    CASE call.op = "DefineSliceOfUint64sContent" -> 8
      [] call.op = "DefineSliceOfStaticBytesContent" -> call.size
      [] call.op = "DefineSliceOfStaticObjectsContent" -> SizeSSZ(New(call.elem), FALSE)
      [] OTHER -> 0

IsDynamicItemList(call) ==
    call.op \in { "DefineSliceOfDynamicBytesContent",
                  "DefineSliceOfDynamicObjectsContent" }

\* the field at the end of a path of accessors, and whether the path names
\* a field of v (each Item index within its list)
RECURSIVE Project(_, _)
Project(v, path) ==
    IF path = << >> THEN v
    ELSE IF Head(path).acc = "Item" THEN Project(v[Head(path).n + 1], Tail(path))
    ELSE Project(v[Head(path).acc], Tail(path))

RECURSIVE IsPath(_, _)
IsPath(v, path) ==
    IF path = << >> THEN TRUE
    ELSE IF Head(path).acc = "Item"
    THEN /\ Head(path).n \in 0..(Len(v) - 1)
         /\ IsPath(v[Head(path).n + 1], Tail(path))
    ELSE IsPath(v[Head(path).acc], Tail(path))

\* the little-endian bytes of a uint64, from its limbs
LE8(n) ==
    [j \in 1..8 |-> IF j % 2 = 1 THEN n[(j + 1) \div 2] % 256
                                 ELSE (n[j \div 2] \div 256) % 256]

\* the 4-byte little-endian number at p[at .. at+4), -1 for one of 2^31 or more
OffsetAt(p, at) ==
    IF p[at + 4] >= 128 THEN 0 - 1
    ELSE p[at + 1] + 256 * p[at + 2] + 65536 * p[at + 3] + 16777216 * p[at + 4]

\* offsets, all relative to the start of a region of `total` bytes whose
\* fixed part has `fixed` bytes: the first is `fixed`, each lies in
\* [fixed, total], and they do not decrease
ValidOffsets(offs, fixed, total) ==
    /\ offs # << >> => offs[1] = fixed
    /\ \A i \in 1..Len(offs) : fixed <= offs[i] /\ offs[i] <= total
    /\ \A i \in 1..(Len(offs) - 1) : offs[i] <= offs[i + 1]

\* the region [lo, hi) of p holds a container of type typ, or a list of
\* dynamic items (of type elem, "" for blobs), with valid offsets throughout
RECURSIVE ValidContainer(_, _, _, _)
RECURSIVE ValidList(_, _, _, _)
ValidField(p, lo, hi, call) ==
    CASE call.op = "DefineDynamicObjectOffset" -> ValidContainer(p, lo, hi, call.elem)
      [] call.op = "DefineSliceOfDynamicBytesOffset" -> ValidList(p, lo, hi, "")
      [] call.op = "DefineSliceOfDynamicObjectsOffset" ->
            ValidList(p, lo, hi, call.elem)
      [] OTHER -> lo <= hi

ValidContainer(p, lo, hi, typ) ==
    LET slots == Slots(Schema(typ), 1, 0, New(typ))
        fixed == FixedRegion(Schema(typ), 1, New(typ))
        offs == [i \in 1..Len(slots) |-> OffsetAt(p, lo + slots[i].at)]
    IN  /\ fixed <= hi - lo
        /\ fixed = SizeSSZ(New(typ), TRUE)
        /\ ValidOffsets(offs, fixed, hi - lo)
        /\ \A i \in 1..Len(slots) :
              ValidField(p, lo + offs[i],
                         IF i < Len(slots) THEN lo + offs[i + 1] ELSE hi,
                         slots[i].call)

ValidList(p, lo, hi, elem) ==
    \/ lo = hi
    \/ /\ 4 <= hi - lo
       /\ LET first == OffsetAt(p, lo)
              count == first \div 4
              offs == [i \in 1..count |-> OffsetAt(p, lo + 4 * (i - 1))]
          IN  /\ first % 4 = 0
              /\ 4 <= first
              /\ first <= hi - lo
              /\ ValidOffsets(offs, 4 * count, hi - lo)
              /\ elem # "" =>
                    \A i \in 1..count :
                       ValidContainer(p, lo + offs[i],
                                      IF i < count THEN lo + offs[i + 1] ELSE hi,
                                      elem)

(***************************************************************************)
(* Properties                                                              *)
(***************************************************************************)
NeverFails == stream.enc.outWriter.failAt = 0

\* C1 (offset validity): in the bytes of a successful encoding of a dynamic
\* container, in either mode, every container and every list of dynamic
\* items at any depth has its first offset equal to the size of its fixed
\* region (4 x the item count for a list), every offset relative to its own
\* start and within [fixed size, total size], and offsets that do not
\* decrease.
OffsetValidity ==
    (EncodingDone /\ IsDynamic(value.typ)) =>
        /\ stream.enc.err = 0 =>
              ValidContainer(StreamBytes, 0, Len(StreamBytes), value.typ)
        /\ ~buffer.enc.panic =>
              ValidContainer(BufferBytes, 0, Len(BufferBytes), value.typ)

\* a Nest is encoded: a dynamic object and a list of two dynamic objects in it
OffsetValidityWitness ==
    /\ EncodingDone
    /\ stream.enc.err = 0
    /\ value.typ = "Nest"
    /\ Len(value.Pairs) = 2
    /\ Len(value.Inner.First) > 0

\* the value with every nil uint256 read as zero
NilAsZero(v) ==
    IF v.typ = "ExecutionPayload" /\ v.BaseFeePerGas.isNil
    THEN [v EXCEPT !.BaseFeePerGas = Int256(Zero64, Zero64, Zero64, Zero64)]
    ELSE v

\* C2 (round trip), as it holds: decoding the encoding of v through the same
\* schema succeeds and yields v field for field, a nil uint256 of v coming
\* back as zero.
RoundTripUpToNil ==
    decoded # NIL => (decoded.err = "" /\ decoded.obj = NilAsZero(value))

\* an ExecutionPayload with a nil BaseFeePerGas and transactions is decoded
RoundTripWitness ==
    /\ decoded # NIL
    /\ value.typ = "ExecutionPayload"
    /\ value.BaseFeePerGas.isNil
    /\ Len(value.Transactions) = 2

\* C2 as stated: decoding the encoding of v yields a value equal to v.
RoundTrip ==
    decoded # NIL => (decoded.err = "" /\ decoded.obj = value)

\* C3 (deterministic encoding across modes): with a sink that never fails,
\* after every primitive the bytes the sink has received are the bytes the
\* buffered encoder has placed in its exactly-sized buffer, and the offset
\* cursors of the two encoders are equal.
DeterministicEncoding ==
    (stream # NIL /\ NeverFails) =>
        /\ StreamBytes = BufferBytes
        /\ stream.enc.offset = buffer.enc.offset
        /\ ~buffer.enc.panic

\* an ExecutionPayload with two transactions has been encoded in both modes
DeterministicEncodingWitness ==
    /\ EncodingDone
    /\ NeverFails
    /\ value.typ = "ExecutionPayload"
    /\ Len(value.Transactions) = 2
    /\ Len(StreamBytes) > 508

\* C4 (error latch): once a Write of the sink has returned an error, the
\* sink is never written again (its count of calls stays at the failed
\* call) and the latched error stays that first error, which is the error
\* the encoding reports.
ErrorLatch ==
    /\ stream # NIL =>
          /\ stream.enc.err # 0 => stream.enc.err = stream.enc.outWriter.failAt
          /\ (stream.enc.outWriter.failAt # 0
                /\ stream.enc.outWriter.calls >= stream.enc.outWriter.failAt) =>
                (/\ stream.enc.outWriter.calls = stream.enc.outWriter.failAt
                 /\ stream.enc.err = stream.enc.outWriter.failAt)
    /\ result.op = "Encode" =>
          /\ result.err # 0 => result.err = result.sink.failAt
          /\ (result.sink.failAt # 0 /\ result.sink.calls >= result.sink.failAt) =>
                (/\ result.sink.calls = result.sink.failAt
                 /\ result.err = result.sink.failAt)

\* the encoding of a Nest with lists reports the error of a sink whose
\* second Write failed and whose later Writes would have succeeded
ErrorLatchWitness ==
    /\ result.op = "Encode"
    /\ result.err = 2
    /\ ~result.sink.sticky
    /\ value.typ = "Nest"
    /\ Len(value.Exits) > 0
    /\ Len(value.Pairs) > 0

\* the size hint of the claim: the sizes it names, and SizeSSZ for the rest
SizeHint(v) ==
    CASE v.typ = "VoluntaryExit" -> 16
      [] v.typ = "SignedVoluntaryExit" -> 112
      [] v.typ = "HistoricalBatch" -> 2 * 8192 * 32
      [] v.typ = "IndexedAttestation" -> 228 + 8 * Len(v.AttestationIndices)
      [] OTHER -> SizeSSZ(v, FALSE)

\* C5 (length equals size hint): a successful encoding emits SizeSSZ()
\* bytes of a static value and SizeSSZ(false) bytes of a dynamic one, and the
\* buffered encoder fills a buffer of that size exactly: it never over-runs
\* it and leaves no byte unwritten.
LengthEqualsSizeHint ==
    /\ stream # NIL => ~buffer.enc.panic
    /\ EncodingDone =>
          /\ SizeHint(value) = SizeSSZ(value, FALSE)
          /\ Len(BufferBytes) = SizeHint(value)
          /\ buffer.enc.outBuffer.room = 0
          /\ stream.enc.err = 0 => Len(StreamBytes) = SizeHint(value)

\* an IndexedAttestation with three indices has been encoded
LengthEqualsSizeHintWitness ==
    /\ EncodingDone
    /\ stream.enc.err = 0
    /\ value.typ = "IndexedAttestation"
    /\ Len(value.AttestationIndices) = 3

\* C6 (static container layout): a VoluntaryExit is encoded as LE8(Epoch)
\* followed by LE8(ValidatorIndex); a SignedVoluntaryExit as the encoding of
\* its Exit in bytes 0..15 and its Signature in bytes 16..111; and
\* VoluntaryExit{7, 0x1122334455667788} as 07 00 .. 00 88 77 66 55 44 33 22 11.
StaticContainerLayout ==
    (EncodingDone /\ stream.enc.err = 0) =>
        /\ value.typ = "VoluntaryExit" =>
              /\ StreamBytes = LE8(value.Epoch) \o LE8(value.ValidatorIndex)
              /\ BufferBytes = StreamBytes
        /\ value.typ = "SignedVoluntaryExit" =>
              /\ StreamBytes = LE8(value.Exit.Epoch) \o LE8(value.Exit.ValidatorIndex)
                                 \o value.Signature
              /\ Len(StreamBytes) = 112
              /\ BufferBytes = StreamBytes
        /\ value = VoluntaryExit(U64(0, 0, 0, 7), U64(4386, 13124, 21862, 30600)) =>
              StreamBytes = << 7, 0, 0, 0, 0, 0, 0, 0,
                               136, 119, 102, 85, 68, 51, 34, 17 >>

\* the SignedVoluntaryExit of VoluntaryExit{7, 0x1122334455667788} and the
\* signature AA .. AA has been encoded
StaticContainerLayoutWitness ==
    /\ EncodingDone
    /\ stream.enc.err = 0
    /\ value = SignedVoluntaryExit(
                   VoluntaryExit(U64(0, 0, 0, 7), U64(4386, 13124, 21862, 30600)),
                   Fill(96, 170))

\* C7 (partial-read equivalence): the bytes a reader at the field path p
\* reads from the encoding of v are the bytes of the field at p in v (the
\* caller's buffer being as long as the field needs).
PartialReadEquivalence ==
    (result.op = "Read" /\ IsPath(value, result.path)) =>
        CASE result.reader.kind = "Uint64Reader" ->
                result.panic = "" /\ result.val = Project(value, result.path)
          [] result.reader.kind = "ByteArrayReader" ->
                result.n = result.reader.Size =>
                   (result.panic = "" /\ result.val = Project(value, result.path))
          [] OTHER ->
                result.n >= Len(Project(value, result.path)) =>
                   /\ result.panic = ""
                   /\ Slice(result.val, 0, result.copied) = Project(value, result.path)

\* the list reader of a field of the root container has been asked `op`
ListAsked(op) ==
    /\ result.op = op
    /\ result.reader.kind = "ListReader"
    /\ Len(result.path) = 1

ListField == result.path[1].acc

ListCall == ContentCall(value.typ, ListField)

\* C8 (static-item list reader): over a list of static items in
\* payload[start, end) with item size s, Len returns (end - start) / s and,
\* for 0 <= n < Len, Item(n) returns a reader at {start + n*s, 0, end}; over
\* the list 1, 2, 3 Len returns 3 and Item(1) reads 2.
StaticItemListReader ==
    /\ ((ListAsked("Len") \/ ListAsked("Item")) /\ ~IsDynamicItemList(ListCall)) =>
          LET start == FieldStart(value, ListField)
              end == FieldEnd(value, ListField)
              s == StaticItemSize(ListCall)
          IN  /\ result.op = "Len" =>
                    (result.panic = "" /\ result.val = (end - start) \div s)
              /\ (result.op = "Item" /\ 0 <= result.n
                    /\ result.n < (end - start) \div s) =>
                    /\ result.panic = ""
                    /\ result.val.pos = ReadPos(start + result.n * s, 0, end)
    /\ (/\ value.typ = "IndexedAttestation"
        /\ value.AttestationIndices
             = << U64(0, 0, 0, 1), U64(0, 0, 0, 2), U64(0, 0, 0, 3) >>) =>
          /\ ListAsked("Len") => (result.panic = "" /\ result.val = 3)
          /\ (result.op = "Read"
                /\ result.path = << Step("AttestationIndices", 0), Step("Item", 1) >>) =>
                (result.panic = "" /\ result.val = U64(0, 0, 0, 2))

\* C9 (dynamic-item list reader): over a list of dynamic items beginning at
\* start, Len returns the first item offset / 4 and, for 0 <= n < Len,
\* Item(n) returns a reader whose offset slot is at start + 4n and whose
\* next-offset slot is at start + 4(n+1); the last item has NextOffset 0 and
\* the end of the list as its ContainerEnd.
DynamicItemListReader ==
    ((ListAsked("Len") \/ ListAsked("Item")) /\ IsDynamicItemList(ListCall)
        /\ Len(value[ListField]) > 0) =>
        LET start == FieldStart(value, ListField)
            end == FieldEnd(value, ListField)
            length == OffsetAt(src.payload, start) \div 4
        IN  /\ result.op = "Len" => (result.panic = "" /\ result.val = length)
            /\ (result.op = "Item" /\ 0 <= result.n /\ result.n < length) =>
                  /\ result.panic = ""
                  /\ result.val.pos.Offset = start + 4 * result.n
                  /\ result.n < length - 1 =>
                        result.val.pos.NextOffset = start + 4 * (result.n + 1)
                  /\ result.n = length - 1 =>
                        /\ result.val.pos.NextOffset = 0
                        /\ result.val.pos.ContainerEnd = end

\* C10 (out-of-range list access fails): Item(src, n) returns a reader if
\* and only if 0 <= n < the length of the list; for every other n, and for
\* every kind of item prototype, the call fails.
OutOfRangeItemFails ==
    ListAsked("Item") =>
        (result.panic = "" <=> (0 <= result.n /\ result.n < Len(value[ListField])))

\* a <= b for two uint32
U32AtMost(a, b) == ~U32Less(b, a)

\* C11 (ReadPos invariant): the ReadPos of every reader reached from the root
\* position {0, 0, len(payload)} by accessors and Item calls that returned
\* has Offset <= ContainerEnd and, when NextOffset # 0, NextOffset + 4 <=
\* ContainerEnd.
ReadPosInvariant ==
    (src # NIL /\ rd # NoReader) =>
        /\ U32AtMost(rd.pos.Offset, rd.pos.ContainerEnd)
        /\ rd.pos.NextOffset # 0 =>
              /\ U32AtMost(rd.pos.NextOffset, U32Add(rd.pos.NextOffset, 4))
              /\ U32AtMost(U32Add(rd.pos.NextOffset, 4), rd.pos.ContainerEnd)

\* the reader at hand was reached from the root reader by the accessors `path`
ReaderAt(path) == src # NIL /\ rd # NoReader /\ trail = path

\* a Read of the reader at `path` into a buffer of at least `need` bytes
ReadAt(path, need) == result.op = "Read" /\ result.path = path /\ result.n >= need

\* the Read returned the bytes b
ReadBytesOf(b) == result.panic = "" /\ Slice(result.val, 0, result.copied) = b

\* C12 (ExecutionPayload reader path): the encoding of an ExecutionPayload
\* has a fixed region of 508 bytes with the ExtraData offset at local 436 and
\* the Transactions offset at local 504; ExecutionPayloadReader addresses
\* those slots, ExtraData() reads the ExtraData bytes and
\* Transactions().Item(k) reads the k-th transaction.
ExecutionPayloadReaderPath ==
    (src # NIL /\ value.typ = "ExecutionPayload") =>
        /\ SizeSSZ(value, TRUE) = 508
        /\ OffsetAt(src.payload, 436) = 508
        /\ OffsetAt(src.payload, 504) = 508 + Len(value.ExtraData)
        /\ ReaderAt(<< Step("ExtraData", 0) >>) =>
              rd.pos = ReadPos(436, 504, Len(src.payload))
        /\ ReaderAt(<< Step("Transactions", 0) >>) =>
              rd.pos = ReadPos(504, 0, Len(src.payload))
        /\ ReadAt(<< Step("ExtraData", 0) >>, Len(value.ExtraData)) =>
              ReadBytesOf(value.ExtraData)
        /\ \A k \in 0..(Len(value.Transactions) - 1) :
              ReadAt(<< Step("Transactions", 0), Step("Item", k) >>,
                     Len(value.Transactions[k + 1])) =>
                 ReadBytesOf(value.Transactions[k + 1])

\* the Encode primitive of each Define class
EncodePrimitive(enc, call, n) ==
    CASE call.op = "DefineUint64" -> EncodeUint64(enc, n)
      [] call.op = "DefineUint256" -> EncodeUint256(enc, n)
      [] call.op = "DefineStaticBytes" -> EncodeStaticBytes(enc, n)
      [] call.op = "DefineDynamicBytesOffset" -> EncodeDynamicBytesOffset(enc, n)
      [] call.op = "DefineDynamicBytesContent" -> EncodeDynamicBytesContent(enc, n)
      [] call.op = "DefineStaticObject" -> EncodeStaticObject(enc, n)
      [] call.op = "DefineDynamicObjectOffset" -> EncodeDynamicObjectOffset(enc, n)
      [] call.op = "DefineDynamicObjectContent" -> EncodeDynamicObjectContent(enc, n)
      [] call.op = "DefineSliceOfUint64sOffset" -> EncodeSliceOfUint64sOffset(enc, n)
      [] call.op = "DefineSliceOfUint64sContent" -> EncodeSliceOfUint64sContent(enc, n)
      [] call.op = "DefineArrayOfStaticBytes" -> EncodeArrayOfStaticBytes(enc, n)
      [] call.op = "DefineSliceOfStaticBytesOffset" ->
            EncodeSliceOfStaticBytesOffset(enc, n)
      [] call.op = "DefineSliceOfStaticBytesContent" ->
            EncodeSliceOfStaticBytesContent(enc, n)
      [] call.op = "DefineSliceOfDynamicBytesOffset" ->
            EncodeSliceOfDynamicBytesOffset(enc, n)
      [] call.op = "DefineSliceOfDynamicBytesContent" ->
            EncodeSliceOfDynamicBytesContent(enc, n)
      [] call.op = "DefineSliceOfStaticObjectsOffset" ->
            EncodeSliceOfStaticObjectsOffset(enc, n)
      [] call.op = "DefineSliceOfStaticObjectsContent" ->
            EncodeSliceOfStaticObjectsContent(enc, n)
      [] call.op = "DefineSliceOfDynamicObjectsOffset" ->
            EncodeSliceOfDynamicObjectsOffset(enc, n)
      [] call.op = "DefineSliceOfDynamicObjectsContent" ->
            EncodeSliceOfDynamicObjectsContent(enc, n)

\* the Decode primitive of each Define class: the decoder after it and the
\* value it stores through the field's address
DecodePrimitive(dec, call, n) ==
    CASE call.op = "DefineUint64" -> DecodeUint64(dec, n)
      [] call.op = "DefineUint256" -> DecodeUint256(dec, n)
      [] call.op = "DefineStaticBytes" -> DecodeStaticBytes(dec, n)
      [] call.op = "DefineDynamicBytesContent" ->
            DecodeDynamicBytesContent(dec, n, call.maxSize)
      [] call.op = "DefineStaticObject" -> DecodeStaticObject(dec, n, call.elem)
      [] call.op = "DefineDynamicObjectContent" ->
            DecodeDynamicObjectContent(dec, n, call.elem)
      [] call.op = "DefineSliceOfUint64sContent" ->
            DecodeSliceOfUint64sContent(dec, n, call.maxItems)
      [] call.op = "DefineArrayOfStaticBytes" -> DecodeArrayOfStaticBytes(dec, n)
      [] call.op = "DefineSliceOfStaticBytesContent" ->
            DecodeSliceOfStaticBytesContent(dec, n, call.size, call.maxItems)
      [] call.op = "DefineSliceOfDynamicBytesContent" ->
            DecodeSliceOfDynamicBytesContent(dec, n, call.maxItems, call.maxSize)
      [] call.op = "DefineSliceOfStaticObjectsContent" ->
            DecodeSliceOfStaticObjectsContent(dec, n, call.elem, call.maxItems)
      [] call.op = "DefineSliceOfDynamicObjectsContent" ->
            DecodeSliceOfDynamicObjectsContent(dec, n, call.elem, call.maxItems)
      [] OTHER -> [dec |-> DecodeOffset(dec), val |-> n]

\* the call reached exactly the Encode primitive of its class: the decoder
\* side is untouched and the field holds what it held
DispatchedToEncoder(c, call, n, r) ==
    /\ r.c.enc = EncodePrimitive(c.enc, call, n)
    /\ r.c.dec = NIL
    /\ r.val = n

\* the call reached exactly the Decode primitive of its class
DispatchedToDecoder(c, call, n, r) ==
    /\ r.c.enc = NIL
    /\ [dec |-> r.c.dec, val |-> r.val] = DecodePrimitive(c.dec, call, n)

\* the decoding of the payload as it stands before the i-th call of the schema
DecodingBefore(i) ==
    DefineFrom(CodecOfDecoder(NewDecoder(src.payload, SizeSSZ(value, TRUE))),
               SubSeq(Root, 1, i - 1), 1, New(value.typ))

DispatchedDecoding(p, call) ==
    DispatchedToDecoder(p.c, call, p.obj[call.field],
                        Define(p.c, call, p.obj[call.field]))

\* blocks handed to DefineEncoder and DefineDecoder
EncoderBlock(enc) == EncodeUint64(enc, U64(0, 0, 0, 7))

DecoderBlock(dec) == FailWith(dec, "block")

\* a payload has just been encoded and is about to be decoded
AboutToDecode == result.op = "Encode" /\ src # NIL /\ decoded = NIL

\* C13 (Codec dispatch): on a Codec holding an encoder only, every Define
\* call runs the Encode primitive of its class and nothing else, and leaves
\* the field it was given as it was; on a Codec holding a decoder only, it
\* runs the Decode primitive of its class and nothing else; DefineEncoder
\* runs its block only when the encoder is set, DefineDecoder only when the
\* decoder is set; the value being encoded never changes.
CodecDispatch ==
    /\ Encoding =>
          /\ DispatchedToEncoder(stream, NextCall, Arg, Define(stream, NextCall, Arg))
          /\ DispatchedToEncoder(buffer, NextCall, Arg, Define(buffer, NextCall, Arg))
          /\ DefineEncoder(stream, EncoderBlock(stream.enc)).enc = EncoderBlock(stream.enc)
          /\ DefineDecoder(stream, DecoderBlock(stream.dec)) = stream
    /\ (stream # NIL /\ pc = 0) => DefineSSZ(stream, value).obj = value
    /\ AboutToDecode =>
          /\ \A i \in 1..Len(Root) : DispatchedDecoding(DecodingBefore(i), Root[i])
          /\ DefineDecoder(DecodingBefore(1).c,
                           DecoderBlock(DecodingBefore(1).c.dec)).dec
               = DecoderBlock(DecodingBefore(1).c.dec)
          /\ DefineEncoder(DecodingBefore(1).c,
                           EncoderBlock(DecodingBefore(1).c.enc))
               = DecodingBefore(1).c

\* the encoding of a Nest with a list of dynamic objects is about to be
\* decoded, every call of its schema having run on both encoders
CodecDispatchWitness ==
    /\ AboutToDecode
    /\ value.typ = "Nest"
    /\ Len(value.Pairs) = 2

\* the number of calls of a schema that write the fixed region: those before
\* its first content-phase call
RECURSIVE FixedCalls(_, _)
FixedCalls(calls, i) ==
    IF i > Len(calls) \/ IsContentOp(calls[i].op) THEN i - 1
    ELSE FixedCalls(calls, i + 1)

\* the top-level container is about to emit its dynamic region
AtDynamicRegion ==
    /\ stream # NIL
    /\ IsDynamic(value.typ)
    /\ pc = FixedCalls(Root, 1)

\* the encoder of EncodeDynamicObjectContent(enc, obj) as the nested
\* container obj is about to emit its dynamic region: the offset tracker set
\* to the fixed size, then the calls of its fixed region
NestedAtDynamicRegion(enc, obj) ==
    DefineFrom(CodecOfEncoder(offsetDynamics(enc, SizeSSZ(obj, TRUE))),
               SubSeq(Schema(obj.typ), 1, FixedCalls(Schema(obj.typ), 1)), 1, obj).c

\* the rest of the walk of the nested container, from its dynamic region on
NestedRest(c, obj) ==
    DefineFrom(c, Schema(obj.typ), FixedCalls(Schema(obj.typ), 1) + 1, obj).c.enc

\* a nested dynamic container is about to be emitted by the next call
AtNestedContent ==
    /\ Encoding
    /\ NextCall.op = "DefineDynamicObjectContent"

OffsetIs(c, n) == (c.enc.err = 0 /\ ~c.enc.panic) => c.enc.offset = n

\* C14 (dynamicOffset invariant), as it holds: when a successful encoding
\* starts to walk a dynamic container, the offset tracker equals the size of
\* the container's fixed region; when it starts to emit the container's
\* dynamic region (after the last call of the fixed region, before the first
\* content-phase call), the tracker equals the container's whole size, the
\* fixed region and the content of every dynamic field.
DynamicOffsetAtRegion ==
    /\ (stream # NIL /\ pc = 0 /\ IsDynamic(value.typ)) =>
          /\ OffsetIs(stream, SizeSSZ(value, TRUE))
          /\ OffsetIs(buffer, SizeSSZ(value, TRUE))
    /\ AtDynamicRegion =>
          /\ OffsetIs(stream, SizeSSZ(value, FALSE))
          /\ OffsetIs(buffer, SizeSSZ(value, FALSE))
    /\ AtNestedContent =>
          /\ OffsetIs(NestedAtDynamicRegion(stream.enc, Arg), SizeSSZ(Arg, FALSE))
          /\ OffsetIs(NestedAtDynamicRegion(buffer.enc, Arg), SizeSSZ(Arg, FALSE))
          /\ stream.enc.err = 0 =>
                NestedRest(NestedAtDynamicRegion(stream.enc, Arg), Arg)
                  = EncodeDynamicObjectContent(stream.enc, Arg)
          /\ NestedRest(NestedAtDynamicRegion(buffer.enc, Arg), Arg)
               = EncodeDynamicObjectContent(buffer.enc, Arg)

\* a Nest is about to emit its dynamic region, which starts with a nested
\* dynamic container that has content
DynamicOffsetAtRegionWitness ==
    /\ AtDynamicRegion
    /\ AtNestedContent
    /\ stream.enc.err = 0
    /\ value.typ = "Nest"
    /\ Len(value.Inner.First) > 0
    /\ Len(value.Pairs) > 0

\* C14 as stated: when a successful encoding starts to emit a container's
\* dynamic region, the offset tracker equals the size of the container's
\* fixed region.
DynamicOffsetIsFixedSize ==
    /\ AtDynamicRegion =>
          /\ OffsetIs(stream, SizeSSZ(value, TRUE))
          /\ OffsetIs(buffer, SizeSSZ(value, TRUE))
    /\ AtNestedContent =>
          /\ OffsetIs(NestedAtDynamicRegion(stream.enc, Arg), SizeSSZ(Arg, TRUE))
          /\ OffsetIs(NestedAtDynamicRegion(buffer.enc, Arg), SizeSSZ(Arg, TRUE))

\* the content-phase call that matches an offset-phase call
ContentPhaseOf(call) ==
    [call EXCEPT !.op =
        CASE call.op = "DefineDynamicBytesOffset" -> "DefineDynamicBytesContent"
          [] call.op = "DefineDynamicObjectOffset" -> "DefineDynamicObjectContent"
          [] call.op = "DefineSliceOfUint64sOffset" -> "DefineSliceOfUint64sContent"
          [] call.op = "DefineSliceOfStaticBytesOffset" ->
                "DefineSliceOfStaticBytesContent"
          [] call.op = "DefineSliceOfDynamicBytesOffset" ->
                "DefineSliceOfDynamicBytesContent"
          [] call.op = "DefineSliceOfStaticObjectsOffset" ->
                "DefineSliceOfStaticObjectsContent"
          [] call.op = "DefineSliceOfDynamicObjectsOffset" ->
                "DefineSliceOfDynamicObjectsContent"
          [] OTHER -> call.op]

\* the number of bytes the content-phase primitive matching `call` writes for
\* the field value n, on a sink that takes everything
ContentWritten(call, n) ==
    Len(EncodePrimitive(NewStreamEncoder(NewSink(0, FALSE, 0)),
                        ContentPhaseOf(call), n).outWriter.data)

\* the offset-phase call wrote the 4 bytes of the offset tracker, little
\* endian, and advanced the tracker by `written`
OffsetPhase(before, bytes, after, bytesAfter, written) ==
    /\ bytesAfter = bytes \o PutUint32(before.offset)
    /\ Uint32(PutUint32(before.offset)) = before.offset
    /\ after.offset = U32Add(before.offset, written)

\* an offset-phase call is taken
OffsetPhaseTaken == Encoding /\ IsOffsetOp(NextCall.op) /\ pc' = pc + 1

\* C15 (offset phase matches content phase): every offset-phase primitive,
\* of every dynamic kind and for every field value, writes exactly the 4
\* bytes of the current offset tracker in little endian and then advances
\* the tracker by the number of bytes the matching content-phase primitive
\* writes for the same field (in streaming mode, as long as the sink takes
\* the writes).
OffsetMatchesContent ==
    [][OffsetPhaseTaken =>
          /\ OffsetPhase(buffer.enc, buffer.enc.outBuffer.put,
                         buffer'.enc, buffer'.enc.outBuffer.put,
                         ContentWritten(NextCall, Arg))
          /\ NeverFails =>
                OffsetPhase(stream.enc, stream.enc.outWriter.data,
                            stream'.enc, stream'.enc.outWriter.data,
                            ContentWritten(NextCall, Arg))]_vars

\* the offset-phase calls of a Nest have been made: a dynamic object, an
\* empty slice, a slice of static objects and a slice of dynamic objects
OffsetMatchesContentWitness ==
    /\ stream # NIL
    /\ NeverFails
    /\ value.typ = "Nest"
    /\ pc = FixedCalls(Root, 1)
    /\ Len(value.Roots) = 0
    /\ Len(value.Exits) = 1
    /\ Len(value.Pairs) = 2

\* an encode primitive is called on the streaming encoder with its error set
CalledAfterError == Encoding /\ stream.enc.err # 0 /\ pc' = pc + 1

\* C16 (encode calls after a latched error are no-ops): in streaming mode,
\* once the encoder's error is set, every encode primitive leaves the whole
\* encoder as it was: the latched error, the offset tracker and the bytes
\* the sink has received.
NoOpAfterError ==
    [][CalledAfterError =>
          /\ stream'.enc.err = stream.enc.err
          /\ stream'.enc.offset = stream.enc.offset
          /\ stream'.enc.outWriter = stream.enc.outWriter
          /\ stream'.enc = stream.enc]_vars

(***************************************************************************)
(* Readers as views of the payload.                                        *)
(***************************************************************************)
\* the last operation of the first goroutine, as a call of its receiver
LastCall == ReaderCall(result.op, result.n)

IsReaderCall == result.op \in {"Read", "Len", "Item"}

\* the operation that returned last returns the same when it is run again
SameAgain ==
    IsReaderCall =>
        /\ Invoke(result.reader, src, LastCall).panic = result.panic
        /\ Invoke(result.reader, src, LastCall).val = result.val

\* the call of the second goroutine returned what it returns alone
SameAsAlone == peer.state = "returned" => peer.out = peer.alone

\* C17 (readers are pure views): while there is a payload no step modifies
\* it; Read and Len leave the reader at hand as it was, Item and the return
\* of the second goroutine leave their receiver as it was; and whatever the
\* two goroutines did in between, an operation returns what it returns
\* when it runs alone on its reader.
ReadersArePureViews ==
    [][src # NIL =>
          /\ src' = src
          /\ (result' # result /\ result'.op \in {"Read", "Len"}) => rd' = rd
          /\ (result' # result /\ result'.op = "Item") => result'.reader = rd
          /\ (peer.state = "called" /\ peer'.state = "returned") =>
                 peer'.reader = peer.reader
          /\ SameAgain'
          /\ SameAsAlone']_vars

\* the second goroutine asked a copy of a list reader for an item and has
\* it, and the first goroutine has gone on from that list reader to an item
\* and read it
ReadersArePureViewsWitness ==
    /\ peer.state = "returned"
    /\ peer.call.op = "Item"
    /\ peer.out.panic = ""
    /\ rd # peer.reader
    /\ result.op = "Read"
    /\ result.panic = ""
    /\ Len(src.payload) > 0

====
